---------------------------- MODULE Spec2Model ----------------------------
(***************************************************************************)
(* Lattice codes (ToricCode3D, the two RhombicCode classes) and the Pauli  *)
(* error models (PauliErrorModel, DeformedXZZXErrorModel) of panqec/bn3d.   *)
(*                                                                         *)
(* The specifications share the variables:                                 *)
(*   SpecCode   construction of a code, its index maps and its lazily      *)
(*              built logical operators;                                   *)
(*   SpecAxis   construction of a code and calls of axis();                *)
(*   SpecNoise  construction of an error model, probability_distribution   *)
(*              and the per-qubit loop of generate;                        *)
(*   SpecGenerate  two calls of generate in a row, each with a generator   *)
(*              in the same initial state;                                 *)
(*   SpecAnalysis  a SimpleAnalysis object (bn3d.statmech.analysis): its   *)
(*              four stages, called through analyse() or one by one.       *)
(***************************************************************************)
EXTENDS Integers, Sequences, FiniteSets, TLC

VARIABLES
    family,        \* which code class the object is an instance of
    size,          \* self.size = (Lx, Ly, Lz)
    constructed,   \* the code object's __init__ has run
    qubit_index,   \* self.qubit_index  : coordinate -> index
    vertex_index,  \* self.vertex_index : coordinate -> index
    face_index,    \* self.face_index   : coordinate -> index; for the
                   \* shape-indexed class, cube cell -> row of the matrix
                   \* get_cube_X_stabilizers() returned
    logical_xs,    \* self._logical_xs (sequence of BSF rows, <<>> = not built)
    logical_zs,    \* self._logical_zs
    code_exc,      \* exception raised by the last code operation ("none")
    axis_call,     \* last call of code.axis: [location, exc, value]
    code_id,       \* code.id, the identity string of the code object
    model,         \* the error model object: class, constructor arguments,
                   \* self._direction and the exception __init__ raised
    probability,   \* the probability argument, counted in halves
    dist,          \* result of probability_distribution(code, probability),
                   \* kept by functools.lru_cache
    gen,           \* the running call of generate: loop index, error vector,
                   \* random generator, Paulis drawn so far and outcome
    earlier,       \* outcome of an earlier, finished call of generate with
                   \* the same arguments and a generator in the same state
    files,         \* what data_manager.load('inputs') and load('results') give
    ana,           \* the SimpleAnalysis object: its attributes, the outcome
                   \* of the last method called and the progress of analyse()
    boot           \* the running call of estimate_correlation_length: the
                   \* bootstrap generator, the row and resample loops

codeVars == <<family, size, constructed, qubit_index, vertex_index,
              face_index, logical_xs, logical_zs, code_exc, axis_call>>

noiseVars == <<code_id, model, probability, dist, gen, earlier>>

anaVars == <<files, ana, boot>>

vars == <<codeVars, noiseVars, anaVars>>

-----------------------------------------------------------------------------
(* Bounds of the model. *)

\* largest lattice length L drawn for Lx, Ly, Lz (the smallest is 2)
MaxL == 4
\* axis() is called on every location of the box -1..AxisHi cubed, and on
\* every qubit coordinate of the code
AxisHi == 2
\* largest lattice length of the codes the error models are applied to
NoiseMaxL == 2
\* the random generators handed to generate start in one of the states 0..MaxSeed
MaxSeed == 1

\* the disorder realizations (hashes 1..MaxHashes) the data files may hold
MaxHashes == 2
\* n_resamp, the number of bootstrap resamples per row (100 by default)
NResamp == 2

-----------------------------------------------------------------------------
(* Python helpers. *)

\* list(range(start, stop, step)) for step > 0
Range(start, stop, step) ==
    IF stop <= start THEN <<>>
    ELSE [i \in 1..((stop - start + step - 1) \div step) |->
              start + (i - 1) * step]

\* the triples appended by   for x in xs: for y in ys: for z in zs: append((x,y,z))
\* (the same order as itertools.product(xs, ys, zs))
Product3(xs, ys, zs) ==
    [p \in 1..(Len(xs) * Len(ys) * Len(zs)) |->
        LET q == p - 1
        IN  << xs[(q \div (Len(ys) * Len(zs))) + 1],
               ys[((q \div Len(zs)) % Len(ys)) + 1],
               zs[(q % Len(zs)) + 1] >>]

\* the pairs visited by   for a in as: for b in bs
Product2(as, bs) ==
    [p \in 1..(Len(as) * Len(bs)) |->
        << as[((p - 1) \div Len(bs)) + 1], bs[((p - 1) % Len(bs)) + 1] >>]

\* [s[i] for i in 1..Len(s) if keep[i]], in order
RECURSIVE FilterSeq(_, _, _)
FilterSeq(s, keep, i) ==
    IF i > Len(s) THEN <<>>
    ELSE IF keep[i] THEN <<s[i]>> \o FilterSeq(s, keep, i + 1)
    ELSE FilterSeq(s, keep, i + 1)

SeqRange(s) == {s[i] : i \in 1..Len(s)}

\* {coord: i for i, coord in enumerate(coordinates)}: a later duplicate of a
\* key overwrites the earlier index
Enumerate(coordinates) ==
    [c \in SeqRange(coordinates) |->
        (CHOOSE i \in 1..Len(coordinates) :
            /\ coordinates[i] = c
            /\ \A j \in 1..Len(coordinates) : coordinates[j] = c => j <= i) - 1]

EmptyMap == [c \in {} |-> 0]


-----------------------------------------------------------------------------
(* Code classes. *)

TORIC == "ToricCode3D"                  \* bn3d.models.toric.ToricCode3D
RHOMBIC == "RhombicCode"                \* bn3d.models.rhombic.RhombicCode
RHOMBIC_SHAPED == "rhombic.RhombicCode" \* bn3d.rhombic.RhombicCode (shape-indexed)

Families == {TORIC, RHOMBIC, RHOMBIC_SHAPED}
IndexedFamilies == {TORIC, RHOMBIC}

X_AXIS == 0
Y_AXIS == 1
Z_AXIS == 2

\* n_k_d[0]; np.product(self.shape) = 3*Lx*Ly*Lz for the shape-indexed class
n_qubits(sz) == 3 * sz[1] * sz[2] * sz[3]

Return(v) == [exc |-> "none", value |-> v]
Raise(e) == [exc |-> e, value |-> <<>>]

\* mutant of Toric_axis: a location that is no qubit gets a default label
Toric_axis_default(location) ==
    LET x == location[1]
        y == location[2]
        z == location[3]
    IN  IF (z % 2 = 0) /\ (x % 2 = 1) /\ (y % 2 = 0) THEN Return(X_AXIS)
        ELSE IF (z % 2 = 0) /\ (x % 2 = 0) /\ (y % 2 = 1) THEN Return(Y_AXIS)
        ELSE Return(Z_AXIS)

\* ToricCode3D.axis and RhombicCode.axis (the same text in both classes)
Toric_axis(location) ==
    LET x == location[1]
        y == location[2]
        z == location[3]
    IN  IF (z % 2 = 0) /\ (x % 2 = 1) /\ (y % 2 = 0) THEN Return(X_AXIS)
        ELSE IF (z % 2 = 0) /\ (x % 2 = 0) /\ (y % 2 = 1) THEN Return(Y_AXIS)
        ELSE IF (z % 2 = 1) /\ (x % 2 = 0) /\ (y % 2 = 0) THEN Return(Z_AXIS)
        ELSE Raise("ValueError")

Rhombic_axis(location) ==
    LET x == location[1]
        y == location[2]
        z == location[3]
    IN  IF (z % 2 = 0) /\ (x % 2 = 1) /\ (y % 2 = 0) THEN Return(X_AXIS)
        ELSE IF (z % 2 = 0) /\ (x % 2 = 0) /\ (y % 2 = 1) THEN Return(Y_AXIS)
        ELSE IF (z % 2 = 1) /\ (x % 2 = 0) /\ (y % 2 = 0) THEN Return(Z_AXIS)
        ELSE Raise("ValueError")

axis(fam, location) ==
    IF fam = TORIC THEN Toric_axis(location) ELSE Rhombic_axis(location)

(* Coordinate lists, in the order the nested loops append them. *)

\* mutant of Toric_qubit_coordinates: the e_y loop starts y at 0, so it
\* repeats vertex-row coordinates instead of the y edges
Toric_qubit_coordinates_evenY(sz) ==
    LET Lx == sz[1]
        Ly == sz[2]
        Lz == sz[3]
    IN  Product3(Range(1, 2*Lx, 2), Range(0, 2*Ly, 2), Range(0, 2*Lz, 2))
        \o Product3(Range(0, 2*Lx, 2), Range(0, 2*Ly, 2), Range(0, 2*Lz, 2))
        \o Product3(Range(0, 2*Lx, 2), Range(0, 2*Ly, 2), Range(1, 2*Lz, 2))

Toric_qubit_coordinates(sz) ==
    LET Lx == sz[1]
        Ly == sz[2]
        Lz == sz[3]
    IN  \* Qubits along e_x, e_y, e_z
        Product3(Range(1, 2*Lx, 2), Range(0, 2*Ly, 2), Range(0, 2*Lz, 2))
        \o Product3(Range(0, 2*Lx, 2), Range(1, 2*Ly, 2), Range(0, 2*Lz, 2))
        \o Product3(Range(0, 2*Lx, 2), Range(0, 2*Ly, 2), Range(1, 2*Lz, 2))

Toric_vertex_coordinates(sz) ==
    Product3(Range(0, 2*sz[1], 2), Range(0, 2*sz[2], 2), Range(0, 2*sz[3], 2))

Toric_face_coordinates(sz) ==
    LET Lx == sz[1]
        Ly == sz[2]
        Lz == sz[3]
    IN  \* Faces in the xy, yz and xz planes
        Product3(Range(1, 2*Lx, 2), Range(1, 2*Ly, 2), Range(0, 2*Lz, 2))
        \o Product3(Range(0, 2*Lx, 2), Range(1, 2*Ly, 2), Range(1, 2*Lz, 2))
        \o Product3(Range(1, 2*Lx, 2), Range(0, 2*Ly, 2), Range(1, 2*Lz, 2))

Rhombic_qubit_coordinates(sz) ==
    LET Lx == sz[1]
        Ly == sz[2]
        Lz == sz[3]
    IN  Product3(Range(1, 2*Lx, 2), Range(0, 2*Ly, 2), Range(0, 2*Lz, 2))
        \o Product3(Range(0, 2*Lx, 2), Range(1, 2*Ly, 2), Range(0, 2*Lz, 2))
        \o Product3(Range(0, 2*Lx, 2), Range(0, 2*Ly, 2), Range(1, 2*Lz, 2))

\* Vertex = triangle stabilizer: (axis, x, y, z), axis innermost
Rhombic_vertex_coordinates(sz) ==
    LET xyz == Product3(Range(0, 2*sz[1], 2), Range(0, 2*sz[2], 2),
                        Range(0, 2*sz[3], 2))
    IN  [p \in 1..(4 * Len(xyz)) |->
            << (p - 1) % 4 >> \o xyz[((p - 1) \div 4) + 1]]

\* Face = cube stabilizer
\* mutant of Rhombic_face_keep: the other residue of an odd sum
Rhombic_face_keep_3(c) == (c[1] + c[2] + c[3]) % 4 = 3

Rhombic_face_keep(c) == (c[1] + c[2] + c[3]) % 4 = 1

Rhombic_face_coordinates(sz) ==
    LET all == Product3(Range(1, 2*sz[1], 2), Range(1, 2*sz[2], 2),
                        Range(1, 2*sz[3], 2))
    IN  FilterSeq(all, [i \in 1..Len(all) |-> Rhombic_face_keep(all[i])], 1)

create_qubit_indices(fam, sz) ==
    IF fam = TORIC THEN Enumerate(Toric_qubit_coordinates(sz))
    ELSE Enumerate(Rhombic_qubit_coordinates(sz))

create_vertex_indices(fam, sz) ==
    IF fam = TORIC THEN Enumerate(Toric_vertex_coordinates(sz))
    ELSE Enumerate(Rhombic_vertex_coordinates(sz))

create_face_indices(fam, sz) ==
    IF fam = TORIC THEN Enumerate(Toric_face_coordinates(sz))
    ELSE Enumerate(Rhombic_face_coordinates(sz))

\* bn3d.rhombic.RhombicCode has shape (3, Lx, Ly, Lz); its Pauli class
\* addresses qubit (axis, x, y, z) by its row-major position in that shape
\* bn3d.rhombic.RhombicCode.get_cube_X_stabilizers: the filter on a cell
Shaped_cube_keep(c) == (c[1] + c[2] + c[3]) % 2 = 1

\* the cells get_cube_X_stabilizers appends a stabilizer for, in order
Shaped_cube_cells(sz) ==
    LET all == Product3(Range(0, sz[1], 1), Range(0, sz[2], 1),
                        Range(0, sz[3], 1))
    IN  FilterSeq(all, [i \in 1..Len(all) |-> Shaped_cube_keep(all[i])], 1)

Shaped_qubit_index(sz) ==
    [c \in (0..2) \X (0..(sz[1]-1)) \X (0..(sz[2]-1)) \X (0..(sz[3]-1)) |->
        ((c[1] * sz[1] + c[2]) * sz[2] + c[3]) * sz[3] + c[4]]

-----------------------------------------------------------------------------
(* Pauli operators: pauli_class(code), .site(operator, coordinate), .to_bsf() *)

new_pauli == [xs |-> {}, zs |-> {}, exc |-> "none"]

Toggle(S, i) == IF i \in S THEN S \ {i} ELSE S \cup {i}

\* place `operator` on the qubit at `coord`: X flips X-bit i, Z flips Z-bit i,
\* Y flips both; a coordinate the indexer does not know is an error
site(P, operator, coord, index) ==
    IF P.exc # "none" THEN P
    ELSE IF coord \notin DOMAIN index THEN [P EXCEPT !.exc = "KeyError"]
    ELSE LET i == index[coord]
         IN  [P EXCEPT
                !.xs = IF operator \in {"X", "Y"} THEN Toggle(@, i) ELSE @,
                !.zs = IF operator \in {"Z", "Y"} THEN Toggle(@, i) ELSE @]

\* for coord in coords: P.site(operator, coord)
RECURSIVE sites(_, _, _, _, _)
sites(P, operator, coords, index, k) ==
    IF k > Len(coords) THEN P
    ELSE sites(site(P, operator, coords[k], index), operator, coords, index,
               k + 1)

\* the length-2n binary vector: X support in 0..n-1, Z support in n..2n-1
to_bsf(P, n) ==
    [b \in 0..(2*n - 1) |->
        IF b < n THEN (IF b \in P.xs THEN 1 ELSE 0)
        ELSE (IF (b - n) \in P.zs THEN 1 ELSE 0)]

-----------------------------------------------------------------------------
(* Logical operators: the Pauli objects built before to_bsf(). *)

ToricXLine(coords, index) == sites(new_pauli, "X", coords, index, 1)

\* mutant of Toric_logical_xs: the second line also runs along x
Toric_logical_xs_twice_x(sz, index) ==
    LET xr == Range(1, 2*sz[1], 2)
        yr == Range(1, 2*sz[2], 2)
        zr == Range(1, 2*sz[3], 2)
    IN  << ToricXLine([i \in 1..Len(xr) |-> <<xr[i], 0, 0>>], index),
           ToricXLine([i \in 1..Len(yr) |-> <<yr[i], 0, 0>>], index),
           ToricXLine([i \in 1..Len(zr) |-> <<0, 0, zr[i]>>], index) >>

Toric_logical_xs(sz, index) ==
    LET Lx == sz[1]
        Ly == sz[2]
        Lz == sz[3]
        xr == Range(1, 2*Lx, 2)
        yr == Range(1, 2*Ly, 2)
        zr == Range(1, 2*Lz, 2)
    IN  << \* X operators along x edges in x direction
           ToricXLine([i \in 1..Len(xr) |-> <<xr[i], 0, 0>>], index),
           \* X operators along y edges in y direction
           ToricXLine([i \in 1..Len(yr) |-> <<0, yr[i], 0>>], index),
           \* X operators along z edges in z direction
           ToricXLine([i \in 1..Len(zr) |-> <<0, 0, zr[i]>>], index) >>

Toric_logical_zs(sz, index) ==
    LET Lx == sz[1]
        Ly == sz[2]
        Lz == sz[3]
        yz == Product2(Range(0, 2*Ly, 2), Range(0, 2*Lz, 2))
        zx == Product2(Range(0, 2*Lz, 2), Range(0, 2*Lx, 2))
        xy == Product2(Range(0, 2*Lx, 2), Range(0, 2*Ly, 2))
    IN  << \* Z operators on x edges forming surface normal to x (yz plane)
           sites(new_pauli, "Z",
                 [i \in 1..Len(yz) |-> <<1, yz[i][1], yz[i][2]>>], index, 1),
           \* Z operators on y edges forming surface normal to y (zx plane)
           sites(new_pauli, "Z",
                 [i \in 1..Len(zx) |-> <<zx[i][2], 1, zx[i][1]>>], index, 1),
           \* Z operators on z edges forming surface normal to z (xy plane)
           sites(new_pauli, "Z",
                 [i \in 1..Len(xy) |-> <<xy[i][1], xy[i][2], 1>>], index, 1) >>

OddSum(c) == (c[1] + c[2]) % 2 = 1

Rhombic_logical_xs(sz, index) ==
    LET Lx == sz[1]
        Ly == sz[2]
        Lz == sz[3]
        OddPairs(ps) == FilterSeq(ps, [i \in 1..Len(ps) |-> OddSum(ps[i])], 1)
        xy == OddPairs(Product2(Range(0, 2*Lx, 1), Range(0, 2*Ly, 1)))
        xz == OddPairs(Product2(Range(0, 2*Lx, 1), Range(0, 2*Lz, 1)))
        yz == OddPairs(Product2(Range(0, 2*Ly, 1), Range(0, 2*Lz, 1)))
    IN  << \* Sheet of X operators normal to the z direction
           sites(new_pauli, "X",
                 [i \in 1..Len(xy) |-> <<xy[i][1], xy[i][2], 0>>], index, 1),
           \* Sheet of X operators normal to the y direction
           sites(new_pauli, "X",
                 [i \in 1..Len(xz) |-> <<xz[i][1], 0, xz[i][2]>>], index, 1),
           \* Sheet of X operators normal to the x direction
           sites(new_pauli, "X",
                 [i \in 1..Len(yz) |-> <<0, yz[i][1], yz[i][2]>>], index, 1) >>

Rhombic_logical_zs(sz, index) ==
    LET xr == Range(0, 2*sz[1], 2)
        yr == Range(0, 2*sz[2], 2)
        zr == Range(0, 2*sz[3], 2)
    IN  << \* Line of parallel Z operators along the x direction
           sites(new_pauli, "Z",
                 [i \in 1..Len(xr) |-> <<xr[i], 1, 0>>], index, 1),
           \* Line of parallel Z operators along the y direction
           sites(new_pauli, "Z",
                 [i \in 1..Len(yr) |-> <<1, yr[i], 0>>], index, 1),
           \* Line of parallel Z operators along the z direction
           sites(new_pauli, "Z",
                 [i \in 1..Len(zr) |-> <<0, 1, zr[i]>>], index, 1) >>

\* two sites per loop iteration: (a1, coord) then (a2, coord)
TwoAxes(a1, a2, cs) ==
    [p \in 1..(2 * Len(cs)) |->
        << IF p % 2 = 1 THEN a1 ELSE a2 >> \o cs[((p - 1) \div 2) + 1]]

Shaped_logical_xs(sz, index) ==
    LET xy == Product2(Range(0, sz[1], 1), Range(0, sz[2], 1))
        xz == Product2(Range(0, sz[1], 1), Range(0, sz[3], 1))
        yz == Product2(Range(0, sz[2], 1), Range(0, sz[3], 1))
    IN  << \* Sheet of X operators normal to the z direction
           sites(new_pauli, "X",
                 TwoAxes(X_AXIS, Y_AXIS,
                         [i \in 1..Len(xy) |-> <<xy[i][1], xy[i][2], 0>>]),
                 index, 1),
           \* Sheet of X operators normal to the y direction
           sites(new_pauli, "X",
                 TwoAxes(X_AXIS, Z_AXIS,
                         [i \in 1..Len(xz) |-> <<xz[i][1], 0, xz[i][2]>>]),
                 index, 1),
           \* Sheet of X operators normal to the x direction
           sites(new_pauli, "X",
                 TwoAxes(Y_AXIS, Z_AXIS,
                         [i \in 1..Len(yz) |-> <<0, yz[i][1], yz[i][2]>>]),
                 index, 1) >>

Shaped_logical_zs(sz, index) ==
    LET xr == Range(0, sz[1], 1)
        yr == Range(0, sz[2], 1)
        zr == Range(0, sz[3], 1)
    IN  << \* Line of parallel Z operators along the x direction
           sites(new_pauli, "Z",
                 [i \in 1..Len(xr) |-> <<Y_AXIS, xr[i], 0, 0>>], index, 1),
           \* Line of parallel Z operators along the y direction
           sites(new_pauli, "Z",
                 [i \in 1..Len(yr) |-> <<Z_AXIS, 0, yr[i], 0>>], index, 1),
           \* Line of parallel Z operators along the z direction
           sites(new_pauli, "Z",
                 [i \in 1..Len(zr) |-> <<X_AXIS, 0, 0, zr[i]>>], index, 1) >>

build_logical_xs(fam, sz, index) ==
    IF fam = TORIC THEN Toric_logical_xs(sz, index)
    ELSE IF fam = RHOMBIC THEN Rhombic_logical_xs(sz, index)
    ELSE Shaped_logical_xs(sz, index)

build_logical_zs(fam, sz, index) ==
    IF fam = TORIC THEN Toric_logical_zs(sz, index)
    ELSE IF fam = RHOMBIC THEN Rhombic_logical_zs(sz, index)
    ELSE Shaped_logical_zs(sz, index)

\* the exception of the first Pauli object that failed, "none" if none did
first_exc(Ps) ==
    IF \E i \in 1..Len(Ps) : Ps[i].exc # "none"
    THEN Ps[CHOOSE i \in 1..Len(Ps) :
                /\ Ps[i].exc # "none"
                /\ \A j \in 1..(i - 1) : Ps[j].exc = "none"].exc
    ELSE "none"

-----------------------------------------------------------------------------
(* Error models.  Floating-point values are exact fixed-point numbers: a     *)
(* direction component r is counted in units of 1e-8 (ONE is 1.0), the       *)
(* probability in halves, and an entry of a distribution, r * probability,   *)
(* in units of 5e-9 (2 * ONE is 1.0).  Rounding errors of the order of 1e-16 *)
(* are not modelled.                                                         *)

ONE == 100000000

Abs(a) == IF a < 0 THEN 0 - a ELSE a

\* np.isclose(a, b): abs(a - b) <= atol + rtol * abs(b), with the default
\* atol = 1e-8 (one unit) and rtol = 1e-5
isclose(a, b) == Abs(a - b) <= 1 + (Abs(b) \div 100000)

PAULI == "PauliErrorModel"
DEFORMED == "DeformedXZZXErrorModel"

\* mutant of PauliErrorModel_init: the direction is normalised when the sum
\* is off instead of being rejected
PauliErrorModel_init_normalising(r) ==
    IF ~isclose(r[1] + r[2] + r[3], ONE)
    THEN [exc |-> "none", direction |-> <<r[1], r[2], ONE - r[1] - r[2]>>]
    ELSE [exc |-> "none", direction |-> r]

\* PauliErrorModel.__init__(r_x, r_y, r_z): the exception raised and the
\* value of self._direction (<<>> when it was never assigned)
PauliErrorModel_init(r) ==
    IF ~isclose(r[1] + r[2] + r[3], ONE)
    THEN [exc |-> "ValueError", direction |-> <<>>]
    ELSE [exc |-> "none", direction |-> r]

\* DeformedXZZXErrorModel.__init__: super().__init__(r_x, r_y, r_z)
DeformedXZZXErrorModel_init(r) == PauliErrorModel_init(r)

ErrorModel_init(class, r) ==
    IF class = PAULI THEN PauliErrorModel_init(r)
    ELSE DeformedXZZXErrorModel_init(r)

\* value * np.ones(n)
Full(n, value) == [i \in 0..(n - 1) |-> value]

\* mutant of Pauli_probability_distribution: p_i = 1 - r_x * probability
Pauli_probability_distribution_pI(direction, n, prob) ==
    Return([p_i |-> Full(n, 2 * ONE - direction[1] * prob),
            p_x |-> Full(n, direction[1] * prob),
            p_y |-> Full(n, direction[2] * prob),
            p_z |-> Full(n, direction[3] * prob)])

\* PauliErrorModel.probability_distribution
Pauli_probability_distribution(direction, n, prob) ==
    Return([p_i |-> Full(n, (2 - prob) * ONE),
            p_x |-> Full(n, direction[1] * prob),
            p_y |-> Full(n, direction[2] * prob),
            p_z |-> Full(n, direction[3] * prob)])

\* the deformed_axis dictionary of _get_deformation_indices
deformed_axis ==
    [id \in {"Toric3DCode", "Planar3DCode", "XCubeCode",
             "RotatedPlanar3DCode", "RhombicCode"} |-> Z_AXIS]
    @@ [id \in {"RotatedToric3DCode", "Toric2DCode", "Planar2DCode",
                "RotatedPlanar2DCode"} |-> X_AXIS]

\* code.qubit_coordinates: the qubit coordinates in index order
qubit_coordinates(index) ==
    [k \in 1..Cardinality(DOMAIN index) |->
        CHOOSE c \in DOMAIN index : index[c] = k - 1]

\* mutant of get_deformation_indices: an unregistered code is left undeformed
get_deformation_indices_lenient(id, fam, coords, n) ==
    IF id \notin DOMAIN deformed_axis
    THEN Return([i \in 0..(n - 1) |-> FALSE])
    ELSE Return([i \in 0..(n - 1) |->
                    /\ (i + 1) \in DOMAIN coords
                    /\ axis(fam, coords[i + 1]).value = deformed_axis[id]])

\* mutant of get_deformation_indices: the flag is set where the axis differs
get_deformation_indices_inverted(id, fam, coords, n) ==
    IF id \notin DOMAIN deformed_axis THEN Raise("NotImplementedError")
    ELSE Return([i \in 0..(n - 1) |->
                    /\ (i + 1) \in DOMAIN coords
                    /\ axis(fam, coords[i + 1]).value # deformed_axis[id]])

\* DeformedXZZXErrorModel._get_deformation_indices(code): the loop stops at
\* the first location that axis rejects (ValueError) or whose flag lies
\* beyond the code.n entries of is_deformed (IndexError)
get_deformation_indices(id, fam, coords, n) ==
    IF id \notin DOMAIN deformed_axis THEN Raise("NotImplementedError")
    ELSE LET Rejects(k) == axis(fam, coords[k]).exc # "none"
             Matches(k) == /\ ~Rejects(k)
                           /\ axis(fam, coords[k]).value = deformed_axis[id]
             Fails(k) == Rejects(k) \/ (Matches(k) /\ k > n)
         IN  IF \E k \in 1..Len(coords) : Fails(k)
             THEN LET k0 == CHOOSE k \in 1..Len(coords) :
                                /\ Fails(k)
                                /\ \A j \in 1..(k - 1) : ~Fails(j)
                  IN  Raise(IF Rejects(k0) THEN "ValueError" ELSE "IndexError")
             ELSE Return([i \in 0..(n - 1) |->
                             (i + 1) \in DOMAIN coords /\ Matches(i + 1)])

\* DeformedXZZXErrorModel.probability_distribution
Deformed_probability_distribution(direction, id, fam, coords, n, prob) ==
    LET r_x == direction[1]
        r_y == direction[2]
        r_z == direction[3]
        d == get_deformation_indices(id, fam, coords, n)
    IN  IF d.exc # "none" THEN d
        ELSE LET is_deformed == d.value
             IN  Return(
                   [p_i |-> [i \in 0..(n - 1) |-> (2 - prob) * ONE],
                    p_x |-> [i \in 0..(n - 1) |->
                               prob * (IF is_deformed[i] THEN r_z ELSE r_x)],
                    p_y |-> [i \in 0..(n - 1) |-> prob * r_y],
                    p_z |-> [i \in 0..(n - 1) |->
                               prob * (IF is_deformed[i] THEN r_x ELSE r_z)]])

probability_distribution(class, direction, id, fam, coords, n, prob) ==
    IF class = PAULI THEN Pauli_probability_distribution(direction, n, prob)
    ELSE Deformed_probability_distribution(direction, id, fam, coords, n, prob)

(* The random generator: a stream of uniform draws u = state / 8 in [0, 1). *)

rng_next(state) == (5 * state + 3) % 8

\* mutant of choice: the draw is looked up with side='left', which lets a
\* zero-width interval be hit
choice_left(p, u) ==
    LET cdf == [k \in 1..4 |->
                   IF k = 1 THEN p[1]
                   ELSE IF k = 2 THEN p[1] + p[2]
                   ELSE IF k = 3 THEN p[1] + p[2] + p[3]
                   ELSE p[1] + p[2] + p[3] + p[4]]
    IN  IF \E k \in 1..4 : p[k] < 0 THEN Raise("ValueError")
        ELSE IF 100 * Abs(cdf[4] - 2 * ONE) > 2 * 149 THEN Raise("ValueError")
        ELSE Return(Cardinality({k \in 1..3 : cdf[k] * 8 < u * cdf[4]}))

\* rng.choice([pauli_i, pauli_x, pauli_y, pauli_z], p=p) for the draw u / 8:
\* numpy rejects negative entries and a sum off 1 by more than sqrt(eps)
\* (1.49e-8), then returns the item at cdf.searchsorted(u, side='right').
\* The value is the position 0..3 of the item chosen.
choice(p, u) ==
    LET cdf == [k \in 1..4 |->
                   IF k = 1 THEN p[1]
                   ELSE IF k = 2 THEN p[1] + p[2]
                   ELSE IF k = 3 THEN p[1] + p[2] + p[3]
                   ELSE p[1] + p[2] + p[3] + p[4]]
    IN  IF \E k \in 1..4 : p[k] < 0 THEN Raise("ValueError")
        ELSE IF 100 * Abs(cdf[4] - 2 * ONE) > 2 * 149 THEN Raise("ValueError")
        ELSE Return(Cardinality({k \in 1..4 : cdf[k] * 8 <= u * cdf[4]}))

\* bsparse.zero_row(2 * n)
zero_row(len) == [b \in 0..(len - 1) |-> 0]

\* mutant of pauli_row: pauli_z sets bit i, the X half, instead of bit n + i
pauli_row_low_z(which, i, n) ==
    [b \in 0..(2*n - 1) |->
        IF which = 1 THEN (IF b = i THEN 1 ELSE 0)
        ELSE IF which = 2 THEN (IF b = i \/ b = n + i THEN 1 ELSE 0)
        ELSE IF which = 3 THEN (IF b = i THEN 1 ELSE 0)
        ELSE 0]

\* the four candidate rows of loop iteration i, by position: I, X, Y, Z
pauli_row(which, i, n) ==
    [b \in 0..(2*n - 1) |->
        IF which = 1 THEN (IF b = i THEN 1 ELSE 0)
        ELSE IF which = 2 THEN (IF b = i \/ b = n + i THEN 1 ELSE 0)
        ELSE IF which = 3 THEN (IF b = n + i THEN 1 ELSE 0)
        ELSE 0]

\* error += row
add_row(error, row) == [b \in DOMAIN error |-> error[b] + row[b]]

-----------------------------------------------------------------------------
(* The code object. *)

Sizes == (2..MaxL) \X (2..MaxL) \X (2..MaxL)

AxisLocations == ((-1)..AxisHi) \X ((-1)..AxisHi) \X ((-1)..AxisHi)

NoCall == [called |-> FALSE, location |-> <<>>, exc |-> "none", value |-> <<>>]

NoModel == [class |-> "none", args |-> <<>>, built |-> FALSE, exc |-> "none",
            direction |-> <<>>]
NoDist == [status |-> "none", value |-> <<>>]
NoGen == [status |-> "idle", i |-> 0, error |-> <<>>, rng |-> 0, seed |-> 0,
          drawn |-> <<>>]
NoEarlier == [done |-> FALSE, status |-> "idle", error |-> <<>>, rng |-> 0]

NoTable == [columns |-> <<>>, rows |-> <<>>]
NoEstimates == [rows |-> <<>>, columns |-> {}, cl_estimate |-> <<>>,
                cl_uncertainty |-> <<>>]
NoFiles == [inputs |-> <<>>, results |-> <<>>]
NoAnalysis == [attrs |-> {}, inputs_df |-> NoTable,
               independent_variables |-> <<>>, results_df |-> NoTable,
               observable_names |-> <<>>, estimates |-> NoEstimates,
               method |-> "none", exc |-> "none", analyse |-> 0, ran |-> <<>>,
               first |-> [calls |-> 0, estimate |-> <<>>,
                          uncertainty |-> <<>>]]
NoBoot == [status |-> "idle", rng |-> 0, i_row |-> 0, i_resamp |-> 0,
           resampled |-> <<>>, uncertainty |-> <<>>, hashes |-> <<>>,
           draws |-> <<>>]

InitCode ==
    /\ family \in Families
    /\ size \in Sizes
    /\ constructed = FALSE
    /\ qubit_index = EmptyMap
    /\ vertex_index = EmptyMap
    /\ face_index = EmptyMap
    /\ logical_xs = <<>>
    /\ logical_zs = <<>>
    /\ code_exc = "none"
    /\ axis_call = NoCall
    \* no error model is involved
    /\ code_id = family
    /\ model = NoModel
    /\ probability = 0
    /\ dist = NoDist
    /\ gen = NoGen
    /\ earlier = NoEarlier
    \* no analysis is involved
    /\ files = NoFiles
    /\ ana = NoAnalysis
    /\ boot = NoBoot

\* __init__: the size is stored and the coordinate indices are built once
Construct ==
    /\ ~constructed
    /\ constructed' = TRUE
    /\ IF family \in IndexedFamilies
       THEN /\ qubit_index' = create_qubit_indices(family, size)
            /\ vertex_index' = create_vertex_indices(family, size)
            /\ face_index' = create_face_indices(family, size)
       ELSE /\ qubit_index' = Shaped_qubit_index(size)
            /\ UNCHANGED <<vertex_index, face_index>>
    /\ UNCHANGED <<family, size, logical_xs, logical_zs, code_exc, axis_call>>
    /\ UNCHANGED <<noiseVars, anaVars>>

\* the logical_xs property: built on first access, returned from the cache after
LogicalXs ==
    /\ constructed
    /\ IF logical_xs # <<>>
       THEN UNCHANGED <<logical_xs, code_exc>>
       ELSE LET Ps == build_logical_xs(family, size, qubit_index)
            IN  IF first_exc(Ps) # "none"
                THEN /\ code_exc' = first_exc(Ps)
                     /\ UNCHANGED logical_xs
                ELSE /\ logical_xs' =
                            [i \in 1..Len(Ps) |-> to_bsf(Ps[i], n_qubits(size))]
                     /\ code_exc' = "none"
    /\ UNCHANGED <<family, size, constructed, qubit_index, vertex_index,
                   face_index, logical_zs, axis_call>>
    /\ UNCHANGED <<noiseVars, anaVars>>

LogicalZs ==
    /\ constructed
    /\ IF logical_zs # <<>>
       THEN UNCHANGED <<logical_zs, code_exc>>
       ELSE LET Ps == build_logical_zs(family, size, qubit_index)
            IN  IF first_exc(Ps) # "none"
                THEN /\ code_exc' = first_exc(Ps)
                     /\ UNCHANGED logical_zs
                ELSE /\ logical_zs' =
                            [i \in 1..Len(Ps) |-> to_bsf(Ps[i], n_qubits(size))]
                     /\ code_exc' = "none"
    /\ UNCHANGED <<family, size, constructed, qubit_index, vertex_index,
                   face_index, logical_xs, axis_call>>
    /\ UNCHANGED <<noiseVars, anaVars>>

\* code.axis(location)
Axis ==
    /\ constructed
    /\ family \in IndexedFamilies
    /\ \E location \in AxisLocations \cup DOMAIN qubit_index :
         LET r == axis(family, location)
         IN  axis_call' = [called |-> TRUE, location |-> location,
                           exc |-> r.exc, value |-> r.value]
    /\ UNCHANGED <<family, size, constructed, qubit_index, vertex_index,
                   face_index, logical_xs, logical_zs, code_exc>>
    /\ UNCHANGED <<noiseVars, anaVars>>

\* bn3d.rhombic.RhombicCode.get_cube_X_stabilizers(): row q of the matrix
\* returned is the stabilizer of the q-th cell kept
GetCubeXStabilizers ==
    /\ constructed
    /\ family = RHOMBIC_SHAPED
    /\ face_index' = Enumerate(Shaped_cube_cells(size))
    /\ UNCHANGED <<family, size, constructed, qubit_index, vertex_index,
                   logical_xs, logical_zs, code_exc, axis_call>>
    /\ UNCHANGED <<noiseVars, anaVars>>

NextCode == Construct \/ LogicalXs \/ LogicalZs \/ GetCubeXStabilizers

SpecCode == InitCode /\ [][NextCode]_vars

NextAxis == Construct \/ Axis

\* axis() reads nothing but its argument: cubic lattices L x L x L suffice
InitAxis ==
    /\ InitCode
    /\ family \in IndexedFamilies
    /\ \E L \in 2..MaxL : size = <<L, L, L>>

SpecAxis == InitAxis /\ [][NextAxis]_vars

-----------------------------------------------------------------------------
(* Properties of the code classes. *)

Cells == size[1] * size[2] * size[3]

\* number of qubits on which an X-type row and a Z-type row both act
Overlap(xrow, zrow, n) ==
    Cardinality({q \in 0..(n - 1) : xrow[q] = 1 /\ zrow[n + q] = 1})

IsBsfMatrix(rows, n) ==
    /\ Len(rows) = 3
    /\ \A i \in 1..3 : DOMAIN rows[i] = 0..(2*n - 1)
    /\ \A i \in 1..3 : \A b \in 0..(2*n - 1) : rows[i][b] \in {0, 1}

HasBothLogicals == logical_xs # <<>> /\ logical_zs # <<>>

\* C1: for ToricCode3D of every size with each L in 2..MaxL, logical_xs and
\* logical_zs are built without error, each has exactly 3 rows over
\* n = 3*Lx*Ly*Lz qubits (24 for 2x2x2), X rows carry no Z bit and Z rows no
\* X bit, and row i of logical_xs meets row j of logical_zs on exactly one
\* qubit when i = j and on none when i # j.
C1_ToricLogicals ==
    family = TORIC =>
        LET n == n_qubits(size)
        IN  /\ code_exc = "none"
            /\ size = <<2, 2, 2>> => n = 24
            /\ constructed => Cardinality(DOMAIN qubit_index) = n
            /\ logical_xs # <<>> =>
                   /\ IsBsfMatrix(logical_xs, n)
                   /\ \A i \in 1..3 : \A b \in n..(2*n - 1) :
                          logical_xs[i][b] = 0
            /\ logical_zs # <<>> =>
                   /\ IsBsfMatrix(logical_zs, n)
                   /\ \A i \in 1..3 : \A b \in 0..(n - 1) :
                          logical_zs[i][b] = 0
            /\ HasBothLogicals =>
                   \A i, j \in 1..3 :
                       Overlap(logical_xs[i], logical_zs[j], n)
                           = IF i = j THEN 1 ELSE 0

C1_Witness ==
    /\ family = TORIC
    /\ size = <<2, 2, 2>>
    /\ HasBothLogicals
    /\ Len(logical_xs) = 3
    /\ Overlap(logical_xs[1], logical_zs[1], 24) = 1
    /\ Overlap(logical_xs[1], logical_zs[2], 24) = 0

\* C2: for both RhombicCode classes and every size with each L in 2..MaxL,
\* every Pauli placed by logical_xs/logical_zs lands on a valid qubit, and
\* logical_xs row i anticommutes (odd overlap) with logical_zs row j if and
\* only if i = j.
C2_RhombicLogicals ==
    family \in {RHOMBIC, RHOMBIC_SHAPED} =>
        /\ code_exc = "none"
        /\ HasBothLogicals =>
               \A i, j \in 1..3 :
                   (Overlap(logical_xs[i], logical_zs[j], n_qubits(size)) % 2
                        = 1) <=> (i = j)

(* The coordinates of each object class, stated by parity instead of by loops. *)

Box(sz) == (0..(2*sz[1] - 1)) \X (0..(2*sz[2] - 1)) \X (0..(2*sz[3] - 1))

OddCount(c) == (c[1] % 2) + (c[2] % 2) + (c[3] % 2)

\* position of coordinate c among the cells of its parity class, x-major
CellRank(c, sz) ==
    (((c[1] \div 2) * sz[2]) + (c[2] \div 2)) * sz[3] + (c[3] \div 2)

ValidQubits(sz) == {c \in Box(sz) : OddCount(c) = 1}
ValidVertices(sz) == {c \in Box(sz) : OddCount(c) = 0}
ValidFaces(sz) == {c \in Box(sz) : OddCount(c) = 2}
ValidCubes(sz) == {c \in Box(sz) : OddCount(c) = 3 /\ (c[1] + c[2] + c[3]) % 4 = 1}
ValidTriangles(sz) == {<<a>> \o c : a \in 0..3, c \in ValidVertices(sz)}

\* the block (0, 1, 2) of the three-loop enumerations a coordinate falls in
QubitBlock(c) == IF c[1] % 2 = 1 THEN 0 ELSE IF c[2] % 2 = 1 THEN 1 ELSE 2
FaceBlock(c) == IF c[3] % 2 = 0 THEN 0 ELSE IF c[1] % 2 = 0 THEN 1 ELSE 2

IsBijection(index, valid, count) ==
    /\ DOMAIN index = valid
    /\ Cardinality(valid) = count
    /\ {index[c] : c \in DOMAIN index} = 0..(count - 1)
    /\ \A c, d \in DOMAIN index : index[c] = index[d] => c = d

\* C3: for every size and every object class of ToricCode3D and RhombicCode
\* the index map holds every valid coordinate of the class exactly once, its
\* values are exactly 0..count-1 (3*Lx*Ly*Lz qubits, Lx*Ly*Lz toric vertices,
\* 3*Lx*Ly*Lz toric faces, 4*Lx*Ly*Lz rhombic triangles), and the index of a
\* coordinate is a fixed function of the size and the coordinate.
C3_IndexBijection ==
    (constructed /\ family \in IndexedFamilies) =>
        /\ IsBijection(qubit_index, ValidQubits(size), 3 * Cells)
        /\ \A c \in DOMAIN qubit_index :
               qubit_index[c] = QubitBlock(c) * Cells + CellRank(c, size)
        /\ family = TORIC =>
               /\ IsBijection(vertex_index, ValidVertices(size), Cells)
               /\ \A c \in DOMAIN vertex_index :
                      vertex_index[c] = CellRank(c, size)
               /\ IsBijection(face_index, ValidFaces(size), 3 * Cells)
               /\ \A c \in DOMAIN face_index :
                      face_index[c] = FaceBlock(c) * Cells + CellRank(c, size)
        /\ family = RHOMBIC =>
               /\ IsBijection(vertex_index, ValidTriangles(size), 4 * Cells)
               /\ \A c \in DOMAIN vertex_index :
                      vertex_index[c] =
                          4 * CellRank(<<c[2], c[3], c[4]>>, size) + c[1]
               /\ IsBijection(face_index, ValidCubes(size),
                              Cardinality(ValidCubes(size)))
               /\ \A c \in DOMAIN face_index :
                      face_index[c] =
                          Cardinality({d \in ValidCubes(size) :
                              CellRank(d, size) < CellRank(c, size)})

C3_Witness ==
    /\ constructed
    /\ family = RHOMBIC
    /\ size = <<2, 3, 4>>
    /\ Cardinality(DOMAIN qubit_index) = 72
    /\ Cardinality(DOMAIN vertex_index) = 96
    /\ qubit_index[<<0, 0, 7>>] = 51

\* C4: axis(location) returns X_AXIS, Y_AXIS or Z_AXIS for every coordinate of
\* the qubit index map (X_AXIS exactly for the first enumerated block, odd x;
\* Y_AXIS for odd y; Z_AXIS for odd z), and raises ValueError, returning no
\* label, for every coordinate that is not a single-odd-component pattern
\* (vertex, face and cube sites).
C4_AxisClassifies ==
    /\ axis_call.called =>
           LET c == axis_call.location
           IN  IF OddCount(c) = 1
               THEN /\ axis_call.exc = "none"
                    /\ axis_call.value = QubitBlock(c)
                    /\ axis_call.value \in {X_AXIS, Y_AXIS, Z_AXIS}
               ELSE /\ axis_call.exc = "ValueError"
                    /\ axis_call.value = <<>>
    /\ constructed =>
           /\ \A c \in DOMAIN qubit_index :
                  /\ axis(family, c).exc = "none"
                  /\ axis(family, c).value = qubit_index[c] \div Cells
                  /\ (axis(family, c).value = X_AXIS) <=> (c[1] % 2 = 1)
                  /\ (axis(family, c).value = Y_AXIS) <=> (c[2] % 2 = 1)
                  /\ (axis(family, c).value = Z_AXIS) <=> (c[3] % 2 = 1)
           /\ \A c \in DOMAIN face_index : axis(family, c).exc = "ValueError"
           /\ \A c \in DOMAIN vertex_index :
                  axis(family, IF family = TORIC THEN c
                               ELSE <<c[2], c[3], c[4]>>).exc = "ValueError"

C4_Witness ==
    /\ axis_call.called
    /\ axis_call.location = <<1, 1, 1>>
    /\ axis_call.exc = "ValueError"
    /\ <<1, 0, 0>> \in DOMAIN qubit_index
    /\ axis(family, <<1, 0, 0>>).value = X_AXIS

-----------------------------------------------------------------------------
(* The error model object. *)

RegisteredIds == DOMAIN deformed_axis
CodeIds == RegisteredIds \cup {"ToricCode3D", "FiveQubitCode"}

NoiseSizes ==
    {sz \in (1..NoiseMaxL) \X (1..NoiseMaxL) \X (1..NoiseMaxL) :
        sz[1] <= sz[2] /\ sz[2] <= sz[3]}

\* sums: exactly 1; off by 1e-8; at and just beyond the np.isclose limit on
\* both sides; a negative component; all zero
Directions ==
    {<<ONE, 0, 0>>, <<2 * ONE, 0 - ONE, 0>>, <<0, 0, 0>>}
    \cup {<<ONE \div 2, ONE \div 4, (ONE \div 4) + d>> :
              d \in {0, 1, 1001, 1002, 0 - 1001, 0 - 1002}}

\* probability = 0, 0.5, 1.0 and 1.5
Probabilities == {0, 1, 2, 3}

Seeds == 0..MaxSeed

\* code.n
code_n == n_qubits(size)

InitNoise ==
    /\ code_id \in CodeIds
    /\ family = IF code_id = "RhombicCode" THEN RHOMBIC ELSE TORIC
    /\ size \in NoiseSizes
    /\ constructed = TRUE
    /\ qubit_index = create_qubit_indices(family, size)
    /\ vertex_index = create_vertex_indices(family, size)
    /\ face_index = create_face_indices(family, size)
    /\ logical_xs = <<>>
    /\ logical_zs = <<>>
    /\ code_exc = "none"
    /\ axis_call = NoCall
    /\ \E class \in {PAULI, DEFORMED}, r \in Directions :
         model = [class |-> class, args |-> r, built |-> FALSE,
                  exc |-> "none", direction |-> <<>>]
    \* the base class never reads code.id
    /\ model.class = PAULI => code_id = "Toric3DCode"
    /\ probability \in Probabilities
    /\ dist = NoDist
    /\ \E seed \in Seeds : gen = [NoGen EXCEPT !.rng = seed, !.seed = seed]
    /\ earlier = NoEarlier
    /\ files = NoFiles
    /\ ana = NoAnalysis
    /\ boot = NoBoot

\* PauliErrorModel(r_x, r_y, r_z) / DeformedXZZXErrorModel(r_x, r_y, r_z)
NewErrorModel ==
    /\ ~model.built
    /\ LET r == ErrorModel_init(model.class, model.args)
       IN  model' = [model EXCEPT !.built = TRUE, !.exc = r.exc,
                                  !.direction = r.direction]
    /\ UNCHANGED <<anaVars, codeVars, code_id, probability, dist, gen, earlier>>

Usable == model.built /\ model.exc = "none"

\* what a call of self.probability_distribution(code, probability) gives:
\* the cached result if there is one (lru_cache keeps no exception)
CallDistribution ==
    IF dist.status = "ok" THEN dist
    ELSE LET r == probability_distribution(model.class, model.direction,
                      code_id, family, qubit_coordinates(qubit_index),
                      code_n, probability)
         IN  [status |-> IF r.exc = "none" THEN "ok" ELSE r.exc,
              value |-> r.value]

\* error_model.probability_distribution(code, probability)
ProbabilityDistribution ==
    /\ Usable
    /\ dist' = CallDistribution
    /\ UNCHANGED <<anaVars, codeVars, code_id, model, probability, gen, earlier>>

\* mutant of Generate: the generator handed in is ignored and a fresh one,
\* seeded from system entropy, is used, as if rng were None
Generate_own_rng ==
    /\ Usable
    /\ gen.status = "idle"
    /\ dist' = CallDistribution
    /\ \E fresh \in 0..7 :
         gen' = IF dist'.status # "ok"
                THEN [gen EXCEPT !.status = dist'.status]
                ELSE [gen EXCEPT !.status = "running", !.i = 0, !.rng = fresh,
                                 !.error = zero_row(2 * code_n)]
    /\ UNCHANGED <<anaVars, codeVars, code_id, model, probability, earlier>>

\* error_model.generate(code, probability, rng), up to the loop
Generate ==
    /\ Usable
    /\ gen.status = "idle"
    /\ dist' = CallDistribution
    /\ gen' = IF dist'.status # "ok"
              THEN [gen EXCEPT !.status = dist'.status]
              ELSE [gen EXCEPT !.status = "running", !.i = 0,
                               !.error = zero_row(2 * code_n)]
    /\ UNCHANGED <<anaVars, codeVars, code_id, model, probability, earlier>>

\* one iteration of   for i in range(code.n)
GenerateStep ==
    /\ gen.status = "running"
    /\ gen.i < code_n
    /\ LET i == gen.i
           d == dist.value
           rng == rng_next(gen.rng)
           c == choice(<<d.p_i[i], d.p_x[i], d.p_y[i], d.p_z[i]>>, rng)
       IN  gen' = IF c.exc # "none"
                  THEN [gen EXCEPT !.status = c.exc]
                  ELSE [gen EXCEPT
                          !.i = i + 1,
                          !.rng = rng,
                          !.drawn = Append(@, c.value),
                          !.error = add_row(@, pauli_row(c.value, i, code_n))]
    /\ UNCHANGED <<anaVars, codeVars, code_id, model, probability, dist, earlier>>

\* return error
GenerateReturn ==
    /\ gen.status = "running"
    /\ gen.i = code_n
    /\ gen' = [gen EXCEPT !.status = "returned"]
    /\ UNCHANGED <<anaVars, codeVars, code_id, model, probability, dist, earlier>>

\* the caller keeps the outcome and calls generate(code, probability, rng2)
\* again, rng2 being a second generator in the state rng started in
GenerateAgain ==
    /\ gen.status \notin {"idle", "running"}
    /\ ~earlier.done
    /\ earlier' = [done |-> TRUE, status |-> gen.status, error |-> gen.error,
                   rng |-> gen.rng]
    /\ gen' = [NoGen EXCEPT !.rng = gen.seed, !.seed = gen.seed]
    /\ UNCHANGED <<anaVars, codeVars, code_id, model, probability, dist>>

NextNoise ==
    \/ NewErrorModel
    \/ ProbabilityDistribution
    \/ Generate
    \/ GenerateStep
    \/ GenerateReturn

SpecNoise == InitNoise /\ [][NextNoise]_vars

\* generate reads the code only through code.n and the distribution: one
\* registered code of each deformed axis, the rhombic lattice and one
\* unregistered code
InitGenerate ==
    /\ InitNoise
    /\ code_id \in {"Toric3DCode", "Planar2DCode", "RhombicCode", "ToricCode3D"}

NextGenerate ==
    \/ NewErrorModel
    \/ Generate
    \/ GenerateStep
    \/ GenerateReturn
    \/ GenerateAgain

SpecGenerate == InitGenerate /\ [][NextGenerate]_vars

-----------------------------------------------------------------------------
(* Properties of the error models. *)

ArgSum == model.args[1] + model.args[2] + model.args[3]

Unchanging == model.direction = model.args /\ model.exc = "none"
Rejected == model.exc = "ValueError" /\ model.direction = <<>>

Arrays == {dist.value.p_i, dist.value.p_x, dist.value.p_y, dist.value.p_z}

ColumnSum(i) ==
    dist.value.p_i[i] + dist.value.p_x[i] + dist.value.p_y[i]
        + dist.value.p_z[i]

C7_InUnitInterval ==
    dist.status = "ok" =>
        \A a \in Arrays : \A i \in DOMAIN a : 0 <= a[i] /\ a[i] <= 2 * ONE

\* the coordinate of qubit i
CoordinateOf(i) == CHOOSE c \in DOMAIN qubit_index : qubit_index[c] = i

ListedZ == {"Toric3DCode", "Planar3DCode", "XCubeCode", "RotatedPlanar3DCode",
            "RhombicCode"}
ListedX == {"RotatedToric3DCode", "Toric2DCode", "Planar2DCode",
            "RotatedPlanar2DCode"}

\* qubit i lies along the axis registered for the code: an odd z (the third
\* block of indices) for the Z_AXIS codes, an odd x (the first) for the others
OnDeformedAxis(i) ==
    IF code_id \in ListedZ
    THEN CoordinateOf(i)[3] % 2 = 1 /\ i >= 2 * Cells
    ELSE CoordinateOf(i)[1] % 2 = 1 /\ i < Cells

\* C8: for DeformedXZZXErrorModel with direction (r_x, r_y, r_z), a qubit on
\* the code's registered deformed axis has p_X = r_z * probability and
\* p_Z = r_x * probability, every other qubit has p_X = r_x * probability and
\* p_Z = r_z * probability, and all qubits have p_Y = r_y * probability and
\* p_I = 1 - probability; for Toric3DCode the deformed qubits are exactly the
\* z-edge qubits, a third of all qubits.
C8_Deformation ==
    (dist.status = "ok" /\ model.class = DEFORMED) =>
        LET r_x == model.args[1]
            r_y == model.args[2]
            r_z == model.args[3]
            d == dist.value
        IN  /\ \A i \in 0..(code_n - 1) :
                   /\ d.p_x[i] = probability *
                          (IF OnDeformedAxis(i) THEN r_z ELSE r_x)
                   /\ d.p_z[i] = probability *
                          (IF OnDeformedAxis(i) THEN r_x ELSE r_z)
                   /\ d.p_y[i] = probability * r_y
                   /\ d.p_i[i] = 2 * ONE - probability * ONE
            /\ code_id = "Toric3DCode" =>
                   /\ {i \in 0..(code_n - 1) : OnDeformedAxis(i)}
                          = {qubit_index[c] : c \in {e \in DOMAIN qubit_index :
                                 e[3] % 2 = 1}}
                   /\ 3 * Cardinality({i \in 0..(code_n - 1) :
                                          OnDeformedAxis(i)}) = code_n

C8_Witness ==
    /\ dist.status = "ok"
    /\ model.class = DEFORMED
    /\ code_id = "Toric3DCode"
    /\ size = <<1, 2, 2>>
    /\ model.args = <<ONE, 0, 0>>
    /\ probability = 2
    /\ dist.value.p_x[0] = 2 * ONE
    /\ dist.value.p_z[0] = 0
    /\ dist.value.p_x[11] = 0
    /\ dist.value.p_z[11] = 2 * ONE

\* C9: for DeformedXZZXErrorModel, probability_distribution and generate fail
\* with NotImplementedError and give no distribution exactly for the codes
\* whose id is none of the nine registered keys; for a registered id (and for
\* the base model) that error is never raised.
C9_Unregistered ==
    /\ dist.status = "NotImplementedError" =>
           /\ model.class = DEFORMED
           /\ code_id \notin (ListedZ \cup ListedX)
           /\ dist.value = <<>>
    /\ (model.class = DEFORMED /\ dist.status # "none"
            /\ code_id \notin (ListedZ \cup ListedX)) =>
           dist.status = "NotImplementedError"
    /\ gen.status = "NotImplementedError" =>
           dist.status = "NotImplementedError" /\ gen.error = <<>>
    /\ code_id \in (ListedZ \cup ListedX) =>
           dist.status \in {"none", "ok"}

C9_Witness ==
    /\ model.class = DEFORMED
    /\ code_id = "ToricCode3D"
    /\ dist.status = "NotImplementedError"
    /\ gen.status = "NotImplementedError"

\* the probability the distribution gives to what generate applied to qubit j,
\* read off the bits (j, n + j) of the error vector
AppliedProbability(j) ==
    LET x == gen.error[j]
        z == gen.error[code_n + j]
    IN  IF x = 0 /\ z = 0 THEN dist.value.p_i[j]
        ELSE IF x = 1 /\ z = 0 THEN dist.value.p_x[j]
        ELSE IF x = 1 /\ z = 1 THEN dist.value.p_y[j]
        ELSE dist.value.p_z[j]

\* C10: generate never applies to a qubit a Pauli whose probability for that
\* qubit is 0; PauliErrorModel(1, 0, 0).generate(code, 1.0, rng) raises nothing
\* and returns, for every code and rng state, the vector with bits 0..n-1 set
\* and bits n..2n-1 clear.
C10_NoZeroProbabilityPauli ==
    /\ gen.status \in {"running", "returned"} =>
           \A j \in 0..(gen.i - 1) : AppliedProbability(j) > 0
    /\ (model.class = PAULI /\ model.args = <<ONE, 0, 0>> /\ probability = 2) =>
           /\ gen.status \in {"idle", "running", "returned"}
           /\ gen.status = "returned" =>
                  gen.error = [b \in 0..(2 * code_n - 1) |->
                                  IF b < code_n THEN 1 ELSE 0]

C10_Witness ==
    /\ model.class = PAULI
    /\ model.args = <<ONE, 0, 0>>
    /\ probability = 2
    /\ size = <<2, 2, 2>>
    /\ gen.status = "returned"
    /\ gen.error[0] = 1
    /\ gen.error[23] = 1
    /\ gen.error[24] = 0
    /\ gen.error[47] = 0

\* the generator state after k draws from the state it was handed over in
RECURSIVE Stream(_, _)
Stream(state, k) == IF k = 0 THEN state ELSE rng_next(Stream(state, k - 1))

\* the Pauli (0 I, 1 X, 2 Y, 3 Z) that bits j and n + j of the error encode
PauliAt(error, j) ==
    LET x == error[j]
        z == error[code_n + j]
    IN  IF x = 0 /\ z = 0 THEN 0
        ELSE IF x = 1 /\ z = 0 THEN 1
        ELSE IF x = 1 /\ z = 1 THEN 2
        ELSE IF x = 0 /\ z = 1 THEN 3
        ELSE 4

Finished == gen.status \notin {"idle", "running"}

\* C11: a second run of generate on the same model, code and probability with
\* a generator in the state the first one started in ends as the first did,
\* with the same error vector and the generator in the same state; the loop
\* has consumed exactly one draw per qubit processed, and the Pauli on qubit
\* j is the one the (j+1)-th draw of the stream selects from qubit j's
\* distribution.
C11_GenerateDeterministic ==
    /\ (earlier.done /\ Finished) =>
           /\ gen.status = earlier.status
           /\ gen.error = earlier.error
           /\ gen.rng = earlier.rng
    /\ gen.status \in {"running", "returned"} =>
           /\ gen.rng = Stream(gen.seed, gen.i)
           /\ \A j \in 0..(gen.i - 1) :
                  LET d == dist.value
                      c == choice(<<d.p_i[j], d.p_x[j], d.p_y[j], d.p_z[j]>>,
                                  Stream(gen.seed, j + 1))
                  IN  c.exc = "none" /\ PauliAt(gen.error, j) = c.value
    /\ gen.status = "returned" => gen.i = code_n

C11_Witness ==
    /\ earlier.done
    /\ earlier.status = "returned"
    /\ gen.status = "returned"
    /\ size = <<1, 1, 2>>
    /\ probability = 1
    /\ model.args = <<ONE \div 2, ONE \div 4, ONE \div 4>>
    /\ \E j, k \in 0..(code_n - 1) :
           PauliAt(gen.error, j) # PauliAt(gen.error, k)
    /\ gen.rng = Stream(gen.seed, 6)

\* the coordinate map between the two rhombic classes
Doubled(c) == <<2 * c[1] + 1, 2 * c[2] + 1, 2 * c[3] + 1>>

SomeEvenLength == \E a \in 1..3 : size[a] % 2 = 0

\* C19: for every size, a cell (i, j, k) passes (i + j + k) % 2 == 1 of
\* get_cube_X_stabilizers exactly if (2i+1, 2j+1, 2k+1) passes
\* (x + y + z) % 4 == 1 of _create_face_indices; both enumerate the kept
\* cells in the same order, so the face index of a doubled coordinate is the
\* matrix row of its cell, and both keep Lx*Ly*Lz/2 cells when a length is
\* even.
C19_SameCubes ==
    (constructed /\ family \in {RHOMBIC, RHOMBIC_SHAPED}) =>
        LET cells == Shaped_cube_cells(size)
            faces == Rhombic_face_coordinates(size)
        IN  /\ \A c \in (0..(size[1] - 1)) \X (0..(size[2] - 1))
                          \X (0..(size[3] - 1)) :
                   Shaped_cube_keep(c) <=> Rhombic_face_keep(Doubled(c))
            /\ family = RHOMBIC =>
                   /\ Cardinality(DOMAIN face_index) = Len(cells)
                   /\ \A q \in 1..Len(cells) :
                          /\ Doubled(cells[q]) \in DOMAIN face_index
                          /\ face_index[Doubled(cells[q])] = q - 1
                   /\ SomeEvenLength =>
                          2 * Cardinality(DOMAIN face_index) = Cells
            /\ (family = RHOMBIC_SHAPED /\ face_index # EmptyMap) =>
                   /\ Cardinality(DOMAIN face_index) = Len(faces)
                   /\ \A q \in 1..Len(faces) :
                          \E c \in DOMAIN face_index :
                              /\ Doubled(c) = faces[q]
                              /\ face_index[c] = q - 1
                   /\ SomeEvenLength =>
                          2 * Cardinality(DOMAIN face_index) = Cells

C19_Witness ==
    /\ family = RHOMBIC_SHAPED
    /\ size = <<2, 3, 4>>
    /\ Cardinality(DOMAIN face_index) = 12
    /\ face_index[<<0, 0, 1>>] = 0
    /\ face_index[<<1, 2, 2>>] = 11
    /\ create_face_indices(RHOMBIC, size)[<<3, 5, 5>>] = 11

\* the bits (j, n + j) that encode each Pauli, by position: I, X, Y, Z
PauliBits == <<(<<0, 0>>), (<<1, 0>>), (<<1, 1>>), (<<0, 1>>)>>

\* C18: in generate, after the loop has processed qubits 0..i-1 the error
\* vector has length 2n and every entry in {0, 1}, bits j and n + j are 0 for
\* every j >= i, and for every j < i the pair (bit j, bit n + j) is (0,0),
\* (1,0), (1,1) or (0,1) according to whether I, X, Y or Z was drawn for
\* qubit j, so that the integer sum equals the sum mod 2; the loop ends with
\* i = n, one drawn Pauli on every qubit.
C18_LoopInvariant ==
    gen.status \in {"running", "returned"} =>
        /\ DOMAIN gen.error = 0..(2 * code_n - 1)
        /\ \A b \in DOMAIN gen.error :
               gen.error[b] \in {0, 1} /\ gen.error[b] = gen.error[b] % 2
        /\ gen.i <= code_n
        /\ Len(gen.drawn) = gen.i
        /\ \A j \in gen.i..(code_n - 1) :
               gen.error[j] = 0 /\ gen.error[code_n + j] = 0
        /\ \A j \in 0..(gen.i - 1) :
               /\ gen.drawn[j + 1] \in 0..3
               /\ <<gen.error[j], gen.error[code_n + j]>>
                      = PauliBits[gen.drawn[j + 1] + 1]
        /\ gen.status = "returned" => gen.i = code_n

C18_Witness ==
    /\ gen.status = "returned"
    /\ size = <<1, 1, 2>>
    /\ gen.i = 6
    /\ SeqRange(gen.drawn) = {0, 1, 2, 3}
    /\ \E j \in 0..5 : gen.error[j] = 1 /\ gen.error[6 + j] = 1
    /\ \E j \in 0..5 : gen.error[j] = 0 /\ gen.error[6 + j] = 1

-----------------------------------------------------------------------------
(* bn3d.statmech.analysis: python, numpy and pandas helpers. *)

\* a dict, its keys in insertion order
Dict(keys, val) == [keys |-> keys, val |-> val]

\* [x for x in s if x != label]
Without(s, label) == FilterSeq(s, [i \in 1..Len(s) |-> s[i] # label], 1)

\* keys followed by the entries of more that are new, as dict.update orders them
AppendNew(keys, more) ==
    keys \o FilterSeq(more, [i \in 1..Len(more) |-> more[i] \notin SeqRange(keys)], 1)

RECURSIVE SeqSum(_, _)
SeqSum(s, i) == IF i > Len(s) THEN 0 ELSE s[i] + SeqSum(s, i + 1)

RECURSIVE GCD(_, _)
GCD(a, b) == IF b = 0 THEN a ELSE GCD(b, a % b)

\* a float: NaN, or the exact fraction num/den in lowest terms (den > 0)
NaN == [nan |-> TRUE, num |-> 0, den |-> 1]
Number(num, den) ==
    LET g == GCD(Abs(num), den)
    IN  [nan |-> FALSE, num |-> num \div g, den |-> den \div g]

\* np.sqrt(x) for x >= 0 or NaN, kept as the root of its exact argument
Sqrt(x) == [nan |-> x.nan, radicand |-> x]

\* values['total'] / values['count']; the data files hold totals that are
\* whole multiples of the count
TrueDivide(total, count) == total \div count

\* Series.mean()
Mean(xs) == IF Len(xs) = 0 THEN NaN ELSE Number(SeqSum(xs, 1), Len(xs))

\* mutant of Std: the population standard deviation (ddof = 0)
Std_population(xs) ==
    LET n == Len(xs)
        S == SeqSum(xs, 1)
        Q == SeqSum([i \in 1..n |-> xs[i] * xs[i]], 1)
    IN  IF n = 0 THEN Sqrt(NaN) ELSE Sqrt(Number(n * Q - S * S, n * n))

\* Series.std(): the sample standard deviation (ddof = 1),
\* sqrt((n * sum(x^2) - sum(x)^2) / (n * (n - 1))), NaN for fewer than 2 values
Std(xs) ==
    LET n == Len(xs)
        S == SeqSum(xs, 1)
        Q == SeqSum([i \in 1..n |-> xs[i] * xs[i]], 1)
    IN  IF n <= 1 THEN Sqrt(NaN) ELSE Sqrt(Number(n * Q - S * S, n * (n - 1)))

\* pd.DataFrame(entries) for a list of dicts that share their keys
DataFrame(entries) ==
    [columns |-> IF entries = <<>> THEN <<>> ELSE entries[1].keys,
     rows |-> [i \in 1..Len(entries) |-> entries[i].val]]

HasColumn(df, label) == label \in SeqRange(df.columns)

\* df.drop(label, axis=1) where the column exists
Drop(df, label) ==
    [columns |-> Without(df.columns, label),
     rows |-> [i \in 1..Len(df.rows) |->
                 [c \in (DOMAIN df.rows[i]) \ {label} |-> df.rows[i][c]]]]

\* df[k].apply(pd.Series): the dicts of column k, one column per key
Expand(df, k) ==
    [columns |-> IF df.rows = <<>> THEN <<>> ELSE df.rows[1][k].keys,
     rows |-> [i \in 1..Len(df.rows) |-> df.rows[i][k].val]]

\* pd.concat([a, b], axis=1)
Concat(a, b) ==
    [columns |-> a.columns \o b.columns,
     rows |-> [i \in 1..Len(a.rows) |-> a.rows[i] @@ b.rows[i]]]

\* left.merge(right): the inner join on the columns the two tables share,
\* in the order of the left rows
Merge(left, right) ==
    LET on == SeqRange(left.columns) \cap SeqRange(right.columns)
        pairs == Product2(left.rows, right.rows)
        keep == [q \in 1..Len(pairs) |->
                    \A c \in on : pairs[q][1][c] = pairs[q][2][c]]
        joined == FilterSeq(pairs, keep, 1)
    IN  IF on = {} THEN Raise("MergeError")
        ELSE Return([columns |-> AppendNew(left.columns, right.columns),
                     rows |-> [q \in 1..Len(joined) |->
                                 joined[q][1] @@ joined[q][2]]])

\* the values of the columns names in one row, as a tuple
KeyOf(row, names) == [j \in 1..Len(names) |-> row[names[j]]]

\* tuple comparison
LexLess(a, b) ==
    \E j \in 1..Len(a) :
        /\ a[j] < b[j]
        /\ \A k \in 1..(j - 1) : a[k] = b[k]

\* the group keys of df.groupby(names), sorted as groupby sorts them
GroupKeys(df, names) ==
    LET keys == {KeyOf(df.rows[i], names) : i \in 1..Len(df.rows)}
    IN  [g \in 1..Cardinality(keys) |->
            CHOOSE k \in keys :
                Cardinality({o \in keys : LexLess(o, k)}) = g - 1]

\* df.groupby(names)[label] for one group: the values of the group's rows
GroupValues(df, names, key, label) ==
    LET keep == [i \in 1..Len(df.rows) |-> KeyOf(df.rows[i], names) = key]
        rows == FilterSeq(df.rows, keep, 1)
    IN  [i \in 1..Len(rows) |-> rows[i][label]]

-----------------------------------------------------------------------------
(* SimpleAnalysis: the four stages as functions of the attributes they read. *)

\* combine_inputs up to the flattened table: 'disorder' is dropped, then the
\* keys of disorder_params and of spin_model_params become leading columns
FlattenInputs(loaded) ==
    LET df0 == DataFrame(loaded)
        df1 == Drop(df0, "disorder")
        df2 == Concat(Expand(df1, "disorder_params"),
                      Drop(df1, "disorder_params"))
        df3 == Concat(Expand(df2, "spin_model_params"),
                      Drop(df2, "spin_model_params"))
    IN  IF ~HasColumn(df0, "disorder") THEN Raise("KeyError")
        ELSE IF ~HasColumn(df1, "disorder_params") THEN Raise("KeyError")
        ELSE IF ~HasColumn(df2, "spin_model_params") THEN Raise("KeyError")
        ELSE Return(df3)

Identity == <<"disorder_model", "hash", "spin_model">>

\* mutant of combine_inputs: the hash column is kept as a variable
combine_inputs_keep_hash(loaded) ==
    LET flat == FlattenInputs(loaded)
    IN  IF flat.exc # "none" THEN flat
        ELSE IF ~(SeqRange(Identity) \subseteq SeqRange(flat.value.columns))
        THEN Raise("KeyError")
        ELSE Return(
               [inputs_df |-> flat.value,
                independent_variables |->
                    Without(Without(flat.value.columns, "disorder_model"),
                            "spin_model") \o <<"tau">>])

\* SimpleAnalysis.combine_inputs: self.inputs_df, self.independent_variables
combine_inputs(loaded) ==
    LET flat == FlattenInputs(loaded)
    IN  IF flat.exc # "none" THEN flat
        ELSE IF ~(SeqRange(Identity) \subseteq SeqRange(flat.value.columns))
        THEN Raise("KeyError")
        ELSE Return(
               [inputs_df |-> flat.value,
                independent_variables |->
                    Without(Without(Without(flat.value.columns,
                                            "disorder_model"),
                                    "hash"),
                            "spin_model") \o <<"tau">>])

\* one entry of combine_results: hash, seed and tau as they come, every
\* observable as total/count, then the sweep statistics
ResultEntry(result) ==
    LET own == FilterSeq(result.keys,
                   [i \in 1..Len(result.keys) |->
                       result.keys[i] \in {"hash", "seed", "tau"}], 1)
        observables == result.val["observables"]
        sweep_stats == result.val["sweep_stats"]
        keys == AppendNew(AppendNew(own, observables.keys), sweep_stats.keys)
    IN  Dict(keys,
             [k \in SeqRange(keys) |->
                 IF k \in SeqRange(sweep_stats.keys) THEN sweep_stats.val[k]
                 ELSE IF k \in SeqRange(observables.keys)
                 THEN TrueDivide(observables.val[k].val["total"],
                                 observables.val[k].val["count"])
                 ELSE result.val[k]])

\* SimpleAnalysis.combine_results: self.results_df is assigned before
\* summary[0] is read for self.observable_names
combine_results(summary) ==
    LET results_df == DataFrame([i \in 1..Len(summary) |->
                                    ResultEntry(summary[i])])
    IN  [exc |-> IF summary = <<>> THEN "IndexError" ELSE "none",
         results_df |-> results_df,
         observable_names |->
             IF summary = <<>> THEN <<>>
             ELSE summary[1].val["observables"].keys]

\* the three columns estimate_observables makes of one observable, for the
\* group of one key
Estimators(df, names, key, label) ==
    LET values == GroupValues(df, names, key, label)
    IN  [estimate |-> Mean(values),
         uncertainty |-> Std(values),
         n_disorders |-> Len(values)]

\* SimpleAnalysis.estimate_observables, all four attributes being set: one row
\* per group key, in the order of the sorted keys
estimate_observables(inputs_df, results_df, observable_names, variables) ==
    LET m == Merge(inputs_df, results_df)
        df == m.value
        keys == GroupKeys(df, variables)
    IN  IF m.exc # "none" THEN m
        ELSE IF ~((SeqRange(variables)
                     \cup SeqRange(observable_names))
                  \subseteq SeqRange(df.columns))
        THEN Raise("KeyError")
        ELSE Return(
               [rows |-> [g \in 1..Len(keys) |->
                   [key |-> keys[g],
                    obs |-> [label \in SeqRange(observable_names) |->
                               Estimators(df, variables,
                                          keys[g], label)]]],
                columns |-> {},
                cl_estimate |-> <<>>,
                cl_uncertainty |-> <<>>])

\* the value of column name in a row of the estimates table
Cell(row, names, name) ==
    row.key[CHOOSE j \in 1..Len(names) : names[j] = name]

Max(a, b) == IF a >= b THEN a ELSE b

\* 1/(2*np.sin(k_min/2)) * np.sqrt(np.abs(s0/sk - 1)) with k_min = 2*pi/L,
\* for a positive sk: kept as L and the exact |s0/sk - 1|
CorrelationLength(L, s0, sk) ==
    IF s0.nan \/ sk.nan
    THEN [nan |-> TRUE, L |-> L, root |-> Sqrt(NaN)]
    ELSE [nan |-> FALSE, L |-> L,
          root |-> Sqrt(Number(Abs(s0.num * sk.den - s0.den * sk.num),
                               s0.den * sk.num))]

\* the CorrelationLength_estimate column (lines 95-102)
CorrelationLengthEstimates(estimates, names) ==
    [g \in 1..Len(estimates.rows) |->
        LET row == estimates.rows[g]
        IN  CorrelationLength(
                Max(Cell(row, names, "L_x"), Cell(row, names, "L_y")),
                row.obs["Susceptibility0"].estimate,
                row.obs["Susceptibilitykmin"].estimate)]

\* hashes (lines 106-111): the hash of every input whose parameters, the
\* independent variables other than tau, equal those of the row
RowHashes(inputs_df, names, row) ==
    LET parameters == Without(names, "tau")
        keep == [i \in 1..Len(inputs_df.rows) |->
                    \A c \in SeqRange(parameters) :
                        inputs_df.rows[i][c] = Cell(row, names, c)]
        matching == FilterSeq(inputs_df.rows, keep, 1)
    IN  [i \in 1..Len(matching) |-> matching[i]["hash"]]

\* filtered_results (lines 114-117), before set_index('hash')
FilteredResults(results_df, hashes, tau) ==
    FilterSeq(results_df.rows,
              [i \in 1..Len(results_df.rows) |->
                  /\ results_df.rows[i]["hash"] \in SeqRange(hashes)
                  /\ results_df.rows[i]["tau"] = tau], 1)

(* The bootstrap generator: a stream of states 0..15. *)

\* np.random.default_rng(0)
BootstrapSeed == 0

bs_rng_next(state) == (5 * state + 3) % 16

RECURSIVE bs_rng_after(_, _)
bs_rng_after(state, k) ==
    IF k = 0 THEN state ELSE bs_rng_next(bs_rng_after(state, k - 1))

\* bs_rng.choice(hashes, size=hashes.size): one uniform index per entry
bs_choice(state, hashes) ==
    [j \in 1..Len(hashes) |->
        hashes[((bs_rng_after(state, j) * Len(hashes)) \div 16) + 1]]

\* filtered_results.loc[resampled_hashes][label]: the rows of every drawn
\* hash, in the order drawn; KeyError if a drawn hash labels no row
Loc(filtered, resampled_hashes, label) ==
    LET pairs == Product2(resampled_hashes, filtered)
        keep == [q \in 1..Len(pairs) |-> pairs[q][2]["hash"] = pairs[q][1]]
        found == FilterSeq(pairs, keep, 1)
    IN  IF \E j \in 1..Len(resampled_hashes) :
               \A i \in 1..Len(filtered) :
                   filtered[i]["hash"] # resampled_hashes[j]
        THEN Raise("KeyError")
        ELSE Return([q \in 1..Len(found) |-> found[q][2][label]])

\* ndarray.std() of the n_resamp resampled values (ddof = 0): NaN if one of
\* them is, else a function of how often each value occurs, 0 if all agree
NpStd(values) ==
    [nan |-> \E i \in 1..Len(values) : values[i].nan,
     of |-> [v \in SeqRange(values) |->
                Cardinality({i \in 1..Len(values) : values[i] = v})]]

-----------------------------------------------------------------------------
(* The analysis object and the data files it loads. *)

\* the values of tau the results are taken at
Taus == {1, 2}

\* the observables of the run (hash h, tau), in tenths: 0.4 and 0.6 for
\* hashes 1 and 2 at tau = 1
Susceptibility0(h, tau) == 2 * h + 2 + 4 * (tau - 1)
Susceptibilitykmin(h, tau) == h * h + tau

InputKeys(extra) ==
    <<"hash", "disorder", "disorder_model", "disorder_params", "spin_model",
      "spin_model_params">> \o (IF extra THEN <<"temperature">> ELSE <<>>)

\* the input record of disorder realization h, drawn with disorder parameter p
InputRecord(h, p, extra) ==
    Dict(InputKeys(extra),
         [k \in SeqRange(InputKeys(extra)) |->
             IF k = "hash" THEN h
             ELSE IF k = "disorder" THEN <<h, p>>
             ELSE IF k = "disorder_model" THEN "Rbim2DIidDisorder"
             ELSE IF k = "disorder_params" THEN Dict(<<"p">>, [c \in {"p"} |-> p])
             ELSE IF k = "spin_model" THEN "RandomBondIsingModel2D"
             ELSE IF k = "spin_model_params"
             THEN Dict(<<"L_x", "L_y">>,
                       [c \in {"L_x", "L_y"} |-> IF c = "L_x" THEN 4 ELSE 6])
             ELSE 1])

Accumulator(value) ==
    Dict(<<"total", "count">>,
         [c \in {"total", "count"} |-> IF c = "total" THEN 2 * value ELSE 2])

ResultKeys == <<"hash", "seed", "tau", "observables", "sweep_stats">>

\* the result record of the run of disorder realization h at tau
ResultRecord(h, tau) ==
    Dict(ResultKeys,
         [k \in SeqRange(ResultKeys) |->
             IF k = "hash" THEN h
             ELSE IF k = "seed" THEN 10 * h + tau
             ELSE IF k = "tau" THEN tau
             ELSE IF k = "observables"
             THEN Dict(<<"Susceptibility0", "Susceptibilitykmin">>,
                       [c \in {"Susceptibility0", "Susceptibilitykmin"} |->
                           IF c = "Susceptibility0"
                           THEN Accumulator(Susceptibility0(h, tau))
                           ELSE Accumulator(Susceptibilitykmin(h, tau))])
             ELSE Dict(<<"acceptance">>, [c \in {"acceptance"} |-> 5])])

\* the runs of a set of (hash, tau) pairs, ordered by hash, then tau
ResultList(have) ==
    [q \in 1..Cardinality(have) |->
        LET run == CHOOSE r \in have :
                       Cardinality({o \in have : LexLess(o, r)}) = q - 1
        IN  ResultRecord(run[1], run[2])]

\* a SimpleAnalysis object just constructed, over data files that hold the
\* inputs of the first n disorder realizations and any set of finished runs
InitAnalysis ==
    /\ family = TORIC
    /\ size = <<2, 2, 2>>
    /\ constructed = FALSE
    /\ qubit_index = EmptyMap
    /\ vertex_index = EmptyMap
    /\ face_index = EmptyMap
    /\ logical_xs = <<>>
    /\ logical_zs = <<>>
    /\ code_exc = "none"
    /\ axis_call = NoCall
    /\ code_id = family
    /\ model = NoModel
    /\ probability = 0
    /\ dist = NoDist
    /\ gen = NoGen
    /\ earlier = NoEarlier
    /\ \E n \in 0..MaxHashes, extra \in BOOLEAN,
          p \in [1..MaxHashes -> {1, 2}],
          have \in SUBSET ((1..MaxHashes) \X Taus) :
         /\ \A h \in (n + 1)..MaxHashes : p[h] = 1
         /\ files = [inputs |-> [h \in 1..n |-> InputRecord(h, p[h], extra)],
                     results |-> ResultList(have)]
    /\ ana = NoAnalysis
    /\ boot = NoBoot

Stages == <<"combine_inputs", "combine_results", "estimate_observables",
            "estimate_correlation_length">>

\* no method of the object is running
Idle == boot.status # "running"

\* stage k may start: called by analyse() whose turn it is, or called
\* directly while analyse() is not running
MayRun(k) == Idle /\ (ana.analyse \in {0, 5, 6} \/ ana.analyse = k)

\* mutant of After: analyse() calls estimate_observables before
\* combine_results
After_observables_first(k, exc) ==
    IF ana.analyse # k THEN ana.analyse
    ELSE IF exc # "none" THEN 6
    ELSE IF k = 1 THEN 3
    ELSE IF k = 3 THEN 2
    ELSE IF k = 2 THEN 4
    ELSE 5

\* the position of analyse() after stage k ended with exc: the next stage, or
\* 6 when the exception leaves analyse()
After(k, exc) ==
    IF ana.analyse # k THEN ana.analyse
    ELSE IF exc = "none" THEN k + 1 ELSE 6

\* the stages analyse() has called
Ran(k) == IF ana.analyse = k THEN Append(ana.ran, Stages[k]) ELSE ana.ran

\* analysis.analyse() is called
Analyse ==
    /\ Idle
    /\ ana.analyse = 0
    /\ ana' = [ana EXCEPT !.analyse = 1]
    /\ UNCHANGED <<codeVars, noiseVars, files, boot>>

CombineInputs ==
    /\ MayRun(1)
    /\ LET r == combine_inputs(files.inputs)
           called == [ana EXCEPT !.method = Stages[1], !.exc = r.exc,
                                 !.analyse = After(1, r.exc), !.ran = Ran(1)]
       IN  ana' = IF r.exc # "none" THEN called
                  ELSE [called EXCEPT
                          !.attrs = @ \cup {"independent_variables",
                                            "inputs_df"},
                          !.independent_variables =
                              r.value.independent_variables,
                          !.inputs_df = r.value.inputs_df]
    /\ UNCHANGED <<codeVars, noiseVars, files, boot>>

CombineResults ==
    /\ MayRun(2)
    /\ LET r == combine_results(files.results)
           called == [ana EXCEPT !.method = Stages[2], !.exc = r.exc,
                                 !.analyse = After(2, r.exc), !.ran = Ran(2),
                                 !.attrs = @ \cup {"results_df"},
                                 !.results_df = r.results_df]
       IN  ana' = IF r.exc # "none" THEN called
                  ELSE [called EXCEPT
                          !.attrs = @ \cup {"observable_names"},
                          !.observable_names = r.observable_names]
    /\ UNCHANGED <<codeVars, noiseVars, files, boot>>

\* estimate_observables reads self.inputs_df and self.results_df (line 69),
\* then self.observable_names (73) and self.independent_variables (78)
EstimateObservables ==
    /\ MayRun(3)
    /\ LET r == IF ~({"inputs_df", "results_df"} \subseteq ana.attrs)
               THEN Raise("AttributeError")
               ELSE IF Merge(ana.inputs_df, ana.results_df).exc # "none"
               THEN Merge(ana.inputs_df, ana.results_df)
               ELSE IF "observable_names" \notin ana.attrs
               THEN Raise("AttributeError")
               ELSE estimate_observables(ana.inputs_df, ana.results_df,
                        ana.observable_names, ana.independent_variables)
           called == [ana EXCEPT !.method = Stages[3], !.exc = r.exc,
                                 !.analyse = After(3, r.exc), !.ran = Ran(3)]
       IN  ana' = IF r.exc # "none" THEN called
                  ELSE [called EXCEPT !.attrs = @ \cup {"estimates"},
                                      !.estimates = r.value]
    /\ UNCHANGED <<codeVars, noiseVars, files, boot>>

\* mutant of EstimateCorrelationLength: the bootstrap generator is made once
\* and goes on from where the last call left it
EstimateCorrelationLength_one_rng ==
    /\ MayRun(4)
    /\ LET exc == IF "estimates" \notin ana.attrs THEN "AttributeError"
                 ELSE IF ~({"L_x", "L_y"}
                           \subseteq SeqRange(ana.independent_variables))
                 THEN "KeyError"
                 ELSE IF ~({"Susceptibility0", "Susceptibilitykmin"}
                           \subseteq SeqRange(ana.observable_names))
                 THEN "KeyError"
                 ELSE "none"
           called == [ana EXCEPT !.method = Stages[4], !.exc = exc,
                                 !.analyse = After(4, exc), !.ran = Ran(4)]
       IN  IF exc # "none"
           THEN /\ ana' = called
                /\ UNCHANGED boot
           ELSE /\ ana' = [called EXCEPT
                    !.analyse = ana.analyse,
                    !.estimates.columns =
                        @ \cup {"CorrelationLength_estimate"},
                    !.estimates.cl_estimate =
                        CorrelationLengthEstimates(ana.estimates,
                            ana.independent_variables)]
                /\ boot' = [NoBoot EXCEPT
                    !.status = "running",
                    !.rng = boot.rng,
                    !.uncertainty =
                        [g \in 1..Len(ana.estimates.rows) |-> 0]]
    /\ UNCHANGED <<codeVars, noiseVars, files>>

\* estimate_correlation_length up to the loop over the rows (lines 93-103)
EstimateCorrelationLength ==
    /\ MayRun(4)
    /\ LET exc == IF "estimates" \notin ana.attrs THEN "AttributeError"
                 ELSE IF ~({"L_x", "L_y"}
                           \subseteq SeqRange(ana.independent_variables))
                 THEN "KeyError"
                 ELSE IF ~({"Susceptibility0", "Susceptibilitykmin"}
                           \subseteq SeqRange(ana.observable_names))
                 THEN "KeyError"
                 ELSE "none"
           called == [ana EXCEPT !.method = Stages[4], !.exc = exc,
                                 !.analyse = After(4, exc), !.ran = Ran(4)]
       IN  IF exc # "none"
           THEN /\ ana' = called
                /\ UNCHANGED boot
           ELSE /\ ana' = [called EXCEPT
                    !.analyse = ana.analyse,
                    !.estimates.columns =
                        @ \cup {"CorrelationLength_estimate"},
                    !.estimates.cl_estimate =
                        CorrelationLengthEstimates(ana.estimates,
                            ana.independent_variables)]
                /\ boot' = [NoBoot EXCEPT
                    !.status = "running",
                    !.rng = BootstrapSeed,
                    !.uncertainty =
                        [g \in 1..Len(ana.estimates.rows) |-> 0]]
    /\ UNCHANGED <<codeVars, noiseVars, files>>

\* one iteration of   for i_resamp in range(n_resamp)   (lines 124-137),
\* with lines 106-119 before the first and line 139 after the last
Resample ==
    /\ boot.status = "running"
    /\ boot.i_row < Len(ana.estimates.rows)
    /\ LET names == ana.independent_variables
           row == ana.estimates.rows[boot.i_row + 1]
           hashes == RowHashes(ana.inputs_df, names, row)
           filtered == FilteredResults(ana.results_df, hashes,
                                       Cell(row, names, "tau"))
           resampled_hashes == bs_choice(boot.rng, hashes)
           s0 == Loc(filtered, resampled_hashes, "Susceptibility0")
           sk == Loc(filtered, resampled_hashes, "Susceptibilitykmin")
           value == CorrelationLength(
                        Max(Cell(row, names, "L_x"), Cell(row, names, "L_y")),
                        Mean(s0.value), Mean(sk.value))
           resampled == Append(boot.resampled, value)
           drawn == [boot EXCEPT
                       !.rng = bs_rng_after(@, Len(hashes)),
                       !.hashes = IF boot.i_resamp = 0
                                  THEN Append(@, hashes) ELSE @,
                       !.draws = IF boot.i_resamp = 0
                                 THEN Append(@, <<resampled_hashes>>)
                                 ELSE [@ EXCEPT ![boot.i_row + 1] =
                                          Append(@, resampled_hashes)]]
       IN  IF s0.exc # "none"
           THEN /\ boot' = [drawn EXCEPT !.status = s0.exc]
                /\ ana' = [ana EXCEPT !.exc = s0.exc,
                                      !.analyse = After(4, s0.exc)]
           ELSE /\ boot' = IF boot.i_resamp + 1 < NResamp
                           THEN [drawn EXCEPT !.i_resamp = @ + 1,
                                              !.resampled = resampled]
                           ELSE [drawn EXCEPT
                                   !.i_resamp = 0,
                                   !.resampled = <<>>,
                                   !.i_row = @ + 1,
                                   !.uncertainty[boot.i_row + 1] =
                                       NpStd(resampled)]
                /\ UNCHANGED ana
    /\ UNCHANGED <<codeVars, noiseVars, files>>

\* the uncertainty column is assigned and the method returns (line 141);
\* ana.first keeps the columns of the first call that returned and whether
\* one or more calls have
EclReturn ==
    /\ boot.status = "running"
    /\ boot.i_row = Len(ana.estimates.rows)
    /\ boot' = [boot EXCEPT !.status = "done"]
    /\ ana' = [ana EXCEPT
                 !.analyse = After(4, "none"),
                 !.estimates.columns =
                     @ \cup {"CorrelationLength_uncertainty"},
                 !.estimates.cl_uncertainty = boot.uncertainty,
                 !.first = IF ana.first.calls > 0 THEN [@ EXCEPT !.calls = 2]
                           ELSE [calls |-> 1,
                                 estimate |-> ana.estimates.cl_estimate,
                                 uncertainty |-> boot.uncertainty]]
    /\ UNCHANGED <<codeVars, noiseVars, files>>

NextAnalysis ==
    \/ Analyse
    \/ CombineInputs
    \/ CombineResults
    \/ EstimateObservables
    \/ EstimateCorrelationLength
    \/ Resample
    \/ EclReturn

SpecAnalysis == InitAnalysis /\ [][NextAnalysis]_vars

-----------------------------------------------------------------------------
(* Properties of the analysis. *)

RECURSIVE FunSum(_, _)
FunSum(f, S) ==
    IF S = {} THEN 0
    ELSE LET x == CHOOSE y \in S : TRUE IN f[x] + FunSum(f, S \ {x})

\* the hash-join of the loaded files: the pairs (input, result) of one hash
JoinedRuns ==
    {q \in (1..Len(files.inputs)) \X (1..Len(files.results)) :
        files.inputs[q[1]].val["hash"] = files.results[q[2]].val["hash"]}

\* the value of an independent variable for a joined pair, read from the files
RawValue(q, name) ==
    LET input == files.inputs[q[1]].val
    IN  IF name = "tau" THEN files.results[q[2]].val["tau"]
        ELSE IF name \in {"L_x", "L_y"} THEN input["spin_model_params"].val[name]
        ELSE IF name = "p" THEN input["disorder_params"].val[name]
        ELSE input[name]

\* the observable of a joined pair, in tenths
RawObservable(q, label) ==
    LET result == files.results[q[2]].val
    IN  IF label = "Susceptibility0"
        THEN Susceptibility0(result["hash"], result["tau"])
        ELSE Susceptibilitykmin(result["hash"], result["tau"])

TupleOf(q) ==
    [j \in 1..Len(ana.independent_variables) |->
        RawValue(q, ana.independent_variables[j])]

Observables == {"Susceptibility0", "Susceptibilitykmin"}

\* C12: the estimates table has exactly one row for every distinct
\* independent-variable tuple of the hash-join of inputs and results, and in
\* that row, for every observable, the estimate is the arithmetic mean over
\* the joined rows of the group, the uncertainty their sample standard
\* deviation (n - 1 denominator; none for a single row) and n_disorders their
\* number.
C12_Estimators ==
    "estimates" \in ana.attrs =>
        LET rows == ana.estimates.rows
            Tuples == {TupleOf(q) : q \in JoinedRuns}
        IN  /\ {rows[g].key : g \in 1..Len(rows)} = Tuples
            /\ Len(rows) = Cardinality(Tuples)
            /\ \A g \in 1..Len(rows) :
                   /\ DOMAIN rows[g].obs = Observables
                   /\ \A label \in Observables :
                          LET group == {q \in JoinedRuns :
                                           TupleOf(q) = rows[g].key}
                              n == Cardinality(group)
                              x == [q \in group |-> RawObservable(q, label)]
                              S == FunSum(x, group)
                              dev2 == [q \in group |->
                                          (n * x[q] - S) * (n * x[q] - S)]
                              e == rows[g].obs[label]
                              var == e.uncertainty.radicand
                          IN  /\ n >= 1
                              /\ e.n_disorders = n
                              /\ ~e.estimate.nan
                              /\ e.estimate.num * n = S * e.estimate.den
                              /\ e.uncertainty.nan <=> n = 1
                              /\ n >= 2 =>
                                     var.num * n * n * (n - 1)
                                         = FunSum(dev2, group) * var.den

\* values 0.4 and 0.6 in one group: mean 0.5, variance 0.02, count 2
C12_Witness ==
    /\ "estimates" \in ana.attrs
    /\ \E g \in 1..Len(ana.estimates.rows) :
           LET e == ana.estimates.rows[g].obs["Susceptibility0"]
           IN  /\ Cell(ana.estimates.rows[g], ana.independent_variables,
                       "tau") = 1
               /\ e.n_disorders = 2
               /\ e.estimate = Number(5, 1)
               /\ e.uncertainty = Sqrt(Number(2, 1))

\* the rows of the estimates table that rest on at most one realization
SingleSampleRows ==
    {g \in 1..Len(ana.estimates.rows) :
        \A label \in Observables :
            ana.estimates.rows[g].obs[label].n_disorders <= 1}

\* C13: for a row of the estimates table with zero or one disorder
\* realization, estimate_observables and estimate_correlation_length raise
\* nothing, every observable's uncertainty is NaN, and the row's
\* CorrelationLength_uncertainty, once assigned, is NaN.
C13_SingleSampleNaN ==
    "estimates" \in ana.attrs =>
        \A g \in SingleSampleRows :
            /\ \A label \in Observables :
                   ana.estimates.rows[g].obs[label].uncertainty.nan
            /\ (boot.status \notin {"idle", "running", "done"}) =>
                   boot.i_row + 1 # g
            /\ ("CorrelationLength_uncertainty" \in ana.estimates.columns) =>
                   ana.estimates.cl_uncertainty[g].nan

\* C14: every call of estimate_correlation_length that returns, on the same
\* or on a freshly estimated table of the same data, leaves the
\* CorrelationLength_estimate and CorrelationLength_uncertainty columns the
\* first call left, and every call starts its bootstrap generator from seed 0.
C14_Reproducible ==
    /\ (ana.first.calls > 0
            /\ "CorrelationLength_estimate" \in ana.estimates.columns) =>
           ana.estimates.cl_estimate = ana.first.estimate
    /\ (ana.first.calls > 0
            /\ "CorrelationLength_uncertainty" \in ana.estimates.columns) =>
           ana.estimates.cl_uncertainty = ana.first.uncertainty
    /\ (boot.status = "running" /\ boot.i_row = 0 /\ boot.i_resamp = 0) =>
           boot.rng = BootstrapSeed

\* a second call has returned, on a table with a row whose resampled values
\* are not all the same
C14_Witness ==
    /\ ana.first.calls = 2
    /\ boot.status = "done"
    /\ ana.estimates.columns = {"CorrelationLength_estimate",
                                "CorrelationLength_uncertainty"}
    /\ ana.estimates.cl_uncertainty = ana.first.uncertainty
    /\ \E g \in 1..Len(ana.estimates.rows) :
           Cardinality(DOMAIN ana.estimates.cl_uncertainty[g].of) > 1

\* C15: two rows of the estimates table with the same hashes receive the same
\* resampled subset at every draw index i_resamp, whatever was drawn before.
C15_SubsetBySeedSetIndex ==
    \A g, o \in 1..Len(boot.draws) :
        boot.hashes[g] = boot.hashes[o] =>
            \A i \in 1..Len(boot.draws[g]) :
                i <= Len(boot.draws[o]) =>
                    boot.draws[g][i] = boot.draws[o][i]

\* the hashes of the realizations a row of the estimates table counts: those
\* joined pairs whose independent variables, tau included, are the row's
CountedHashes(g) ==
    {files.inputs[q[1]].val["hash"] :
        q \in {j \in JoinedRuns : TupleOf(j) = ana.estimates.rows[g].key}}

\* C17: for every row the loop has reached, the hashes resampled from are
\* exactly the realizations with the row's parameters and a result at the
\* row's tau (as many as n_disorders), every draw has that size and holds
\* only those hashes, every drawn hash has a result at the row's tau, and the
\* lookup raises nothing.
C17_HashSetMatchesRow ==
    /\ boot.status # "KeyError"
    /\ \A g \in 1..Len(boot.hashes) :
           LET row == ana.estimates.rows[g]
               tau == Cell(row, ana.independent_variables, "tau")
           IN  /\ SeqRange(boot.hashes[g]) = CountedHashes(g)
               /\ \A label \in Observables :
                      Len(boot.hashes[g]) = row.obs[label].n_disorders
               /\ \A i \in 1..Len(boot.draws[g]) :
                      /\ Len(boot.draws[g][i]) = Len(boot.hashes[g])
                      /\ SeqRange(boot.draws[g][i])
                             \subseteq SeqRange(boot.hashes[g])
                      /\ \A h \in SeqRange(boot.draws[g][i]) :
                             \E r \in 1..Len(files.results) :
                                 /\ files.results[r].val["hash"] = h
                                 /\ files.results[r].val["tau"] = tau

\* the attributes a stage reads
Reads(k) ==
    IF k = 3 THEN {"inputs_df", "results_df", "observable_names",
                   "independent_variables"}
    ELSE IF k = 4 THEN {"estimates", "independent_variables", "inputs_df",
                        "results_df"}
    ELSE {}

\* C16: analyse() calls combine_inputs, combine_results, estimate_observables
\* and estimate_correlation_length in that order, each once, and has called
\* all four when it returns; whenever it is about to call or is running a
\* stage, every attribute the stage reads has been assigned by a stage that
\* completed; a call of estimate_observables while inputs_df or results_df is
\* unassigned, or of estimate_correlation_length while estimates is, ends in
\* AttributeError, and estimates is never assigned without the attributes it
\* is computed from.
C16_StageOrder ==
    /\ Len(ana.ran) <= 4
    /\ \A k \in 1..Len(ana.ran) : ana.ran[k] = Stages[k]
    /\ ana.analyse = 0 => ana.ran = <<>>
    /\ ana.analyse \in 1..4 =>
           /\ Len(ana.ran) = IF boot.status = "running" THEN 4
                             ELSE ana.analyse - 1
           /\ Reads(ana.analyse) \subseteq ana.attrs
    /\ ana.analyse = 5 =>
           /\ ana.ran = Stages
           /\ Reads(3) \cup Reads(4) \subseteq ana.attrs
    /\ (ana.method = "estimate_observables"
            /\ ~({"inputs_df", "results_df"} \subseteq ana.attrs)) =>
           ana.exc = "AttributeError" /\ "estimates" \notin ana.attrs
    /\ (ana.method = "estimate_correlation_length"
            /\ "estimates" \notin ana.attrs) =>
           ana.exc = "AttributeError" /\ boot.status = "idle"
    /\ "estimates" \in ana.attrs => Reads(3) \subseteq ana.attrs
    /\ "estimates" \notin ana.attrs => ana.estimates = NoEstimates

C16_Witness ==
    /\ ana.analyse = 5
    /\ ana.ran = Stages
    /\ ana.exc = "none"
    /\ Len(ana.estimates.rows) >= 2
    /\ ana.estimates.columns = {"CorrelationLength_estimate",
                                "CorrelationLength_uncertainty"}

\* the column names of the flattened input table, read from the files: the
\* top-level keys other than disorder and the two parameter dicts, and the
\* keys of those dicts
FlatColumns ==
    LET input == files.inputs[1]
    IN  (SeqRange(input.keys)
             \ {"disorder", "disorder_params", "spin_model_params"})
        \cup SeqRange(input.val["disorder_params"].keys)
        \cup SeqRange(input.val["spin_model_params"].keys)

\* C20 as stated: after combine_inputs, independent_variables holds exactly
\* the column names of the flattened input table other than disorder_model,
\* spin_model and hash, no other name added or removed.
C20_VariablesAreColumns ==
    "independent_variables" \in ana.attrs =>
        SeqRange(ana.independent_variables)
            = FlatColumns \ {"disorder_model", "spin_model", "hash"}

\* C20 amended: after combine_inputs, independent_variables is the list of
\* the column names of the flattened input table other than disorder_model,
\* spin_model and hash, each once and in column order, followed by the name
\* tau, which is no column of the input table; no other name is added or
\* removed.
C20_VariablesAndTau ==
    "independent_variables" \in ana.attrs =>
        LET names == ana.independent_variables
            columns == ana.inputs_df.columns
            n == Len(names)
        IN  /\ SeqRange(columns) = FlatColumns
            /\ "tau" \notin FlatColumns
            /\ names[n] = "tau"
            /\ {names[j] : j \in 1..(n - 1)}
                   = FlatColumns \ {"disorder_model", "spin_model", "hash"}
            /\ \A j, k \in 1..n : names[j] = names[k] => j = k
            /\ \A j, k \in 1..(n - 1) :
                   j < k =>
                       \E a, b \in 1..Len(columns) :
                           /\ a < b
                           /\ columns[a] = names[j]
                           /\ columns[b] = names[k]

C20_Witness ==
    /\ "independent_variables" \in ana.attrs
    /\ ana.method = "combine_inputs"
    /\ ana.exc = "none"
    /\ ana.independent_variables = <<"L_x", "L_y", "p", "temperature", "tau">>
    /\ "hash" \in SeqRange(ana.inputs_df.columns)

=============================================================================
